---- MODULE Spec2Model ----
(***************************************************************************)
(* A model of buniq's probabilistic membership engine:                     *)
(*   - the scaling (dablooms) bloom filter over a growable mapped file,    *)
(*     src/src/dablooms.c                                                  *)
(*   - the basic bit-array bloom filter, src/src/bloom-filter.c            *)
(*   - the in-memory 4-bit counting filter, src/src/counting-bloom.c       *)
(*                                                                         *)
(* An item is represented by the two hash words MurmurHash3_x64_128        *)
(* yields for it (fields h1, h2); two byte strings with the same hash      *)
(* words are indistinguishable to every filter.                            *)
(***************************************************************************)
EXTENDS Integers, Sequences, FiniteSets, TLC

VARIABLES
  kind,      \* which filter this run of the program uses
  sbf,       \* the scaling_bloom_t: its fields, its counting_bloom_t array, the bitmap_t
  file,      \* content of the backing file as seen through the shared mapping
  disk,      \* content of the backing file on durable storage
  snap,      \* ghost: file content when scaling_bloom_flush last stored a disk_seqnum
  inserted,  \* ghost: items inserted into the scaling filter so far
  removed,   \* ghost: TRUE once scaling_bloom_remove has decremented something
  preclose,  \* ghost: what the scaling filter looked like at free_scaling_bloom
  bloom,     \* the struct bloom of the basic filter and its bit buffer
  binserted, \* ghost: items inserted into the basic filter since init / reset
  ecb,       \* the struct enhanced_counting_bloom and its counter buffer
  eadded,    \* ghost: how often each item was added to the enhanced counting filter
  pool,      \* the thread_pool_t: its queue, its flags, its mutex and conditions
  threads,   \* where each thread using the pool stands, and its local variables
  hist,      \* ghost: the lines submit_work took, those dequeued, those processed
  lastop,    \* ghost: the call made by the last step and what it observed
  ret,       \* return value of the last call
  left       \* number of calls the run may still make

scalingVars == <<sbf, file, disk, snap, inserted, removed, preclose>>
basicVars == <<bloom, binserted>>
vars == <<kind, sbf, file, disk, snap, inserted, removed, preclose, bloom, binserted, ecb,
          eadded, pool, threads, hist, lastop, ret, left>>

(***************************************************************************)
(* Bounds of the model.                                                    *)
(***************************************************************************)
\* bloom->capacity of every sub-filter (the code wants >= 1000; scaled down)
Capacity == 3
\* the error rate is 2^-ErrorExp, so that the logarithms of counting_bloom_init are exact
ErrorExp == 1
\* the hash sum h1 + i*h2 wraps at this modulus (2^32 in hash_func, scaled down)
HashWrap == 64
\* header->count is a uint32_t; it wraps at this modulus (2^32, scaled down)
CountWrap == 1024
\* size of a page of the mapping, the unit of write-back (4096, scaled down)
PageSize == 32
\* largest record id a caller passes
MaxId == 5
\* number of calls a run of Spec makes
MaxSteps == 4
\* number of calls a run of SpecPersist makes
MaxPersistSteps == 6
MaxSeqSteps == 5
MaxDurableSteps == 5
MaxRaceCalls == 2
MaxPairSteps == 5
MaxProbes == 3
MaxNibbleSteps == 1
\* number of calls a run of SpecSat makes: enough to saturate a counter
MaxSatSteps == 17
\* entries of the basic and of the enhanced counting filter (the code wants >= 1000; scaled down)
Entries == 5
\* their error rate is 2^-BloomErrorExp
BloomErrorExp == 2

(***************************************************************************)
(* Program constants.                                                      *)
(***************************************************************************)
\* sizeof(scaling_bloom_header_t): max_id, mem_seqnum, disk_seqnum
TopHeaderSize == 24
\* sizeof(counting_bloom_header_t): id, count, padding
CBHeaderSize == 16
\* the two addresses mmap/mremap can put the mapping at
Bases == {1000, 2000}

Ids == 0..MaxId

\* Items, by their hash words.  In a sub-filter with 5 counters per function
\* and 2 functions, A probes (0,0), B probes (0,1) and C probes (1,0): once B
\* and C are inserted A is a false positive.  D wraps the hash sum.
ItemA == [h1 |-> 0, h2 |-> 0]
ItemB == [h1 |-> 0, h2 |-> 1]
ItemC == [h1 |-> 1, h2 |-> 4]
ItemD == [h1 |-> HashWrap - 1, h2 |-> 3]
Items == {ItemA, ItemB, ItemC}
GrowItems == {ItemA, ItemB, ItemC, ItemD}
NoAdds == [x \in GrowItems |-> 0]
\* a run that does not use the thread pool
NoPool == [created |-> FALSE]
NoThreads == [pc |-> <<>>]
NoHist == [accepted |-> <<>>]

\* lastop: the call, its item and id, whether a bitmap_increment/decrement
\* in it returned -1, the outcomes of its msync calls, whether it appended a
\* sub-filter, whether the call before it was the same call on the same item,
\* whether every call so far was a call of the same function, what
\* counting_bloom_add returned inside a scaling_bloom_add (-1: not called),
\* the file content before a scaling_bloom_add, whether the call is a remove
\* of the item that the call before it added without an overflow, whether
\* the process died inside the call, the error rate a constructor was given
NoOp == [op |-> "none", item |-> ItemA, id |-> 0, err |-> FALSE,
         f1 |-> TRUE, f2 |-> TRUE, grew |-> FALSE, rep |-> FALSE, same |-> TRUE,
         crc |-> -1, pre |-> <<>>, undo |-> FALSE,
         crash |-> FALSE, arg |-> 0]

CeilDiv(a, b) == (a + b - 1) \div b

(***************************************************************************)
(* bitmap_t: 4-bit counters packed two to a byte.                          *)
(***************************************************************************)
\* bitmap_increment storing the incremented byte without the test for 15
bitmap_increment_unsaturated(arr, index, offset) ==
  LET access == index \div 2 + offset
      n  == arr[access]
      temp == IF index % 2 # 0 THEN n % 16 ELSE n \div 16
      nn == IF index % 2 # 0
              THEN ((n \div 16) * 16 + ((n % 16) + 1)) % 256
              ELSE ((n % 16) + ((n \div 16) * 16 + 16)) % 256
  IN [array |-> [arr EXCEPT ![access] = nn], rc |-> IF temp = 15 THEN -1 ELSE 0]

\* bitmap_increment: [array, rc]
bitmap_increment(arr, index, offset) ==
  LET access == index \div 2 + offset
      n  == arr[access]
      temp == IF index % 2 # 0 THEN n % 16 ELSE n \div 16
      nn == IF index % 2 # 0
              THEN ((n \div 16) * 16 + ((n % 16) + 1)) % 256
              ELSE ((n % 16) + ((n \div 16) * 16 + 16)) % 256
  IN IF temp = 15
       THEN [array |-> arr, rc |-> -1]
       ELSE [array |-> [arr EXCEPT ![access] = nn], rc |-> 0]

\* bitmap_decrement: [array, rc]
bitmap_decrement(arr, index, offset) ==
  LET access == index \div 2 + offset
      n  == arr[access]
      temp == IF index % 2 # 0 THEN n % 16 ELSE n \div 16
      nn == IF index % 2 # 0
              THEN ((n \div 16) * 16 + ((n % 16) - 1) + 256) % 256
              ELSE ((n % 16) + ((n \div 16) * 16 - 16) + 256) % 256
  IN IF temp = 0
       THEN [array |-> arr, rc |-> -1]
       ELSE [array |-> [arr EXCEPT ![access] = nn], rc |-> 0]

\* bitmap_check reading the other half of the byte
bitmap_check_swapped(arr, index, offset) ==
  LET access == index \div 2 + offset
  IN IF index % 2 = 0 THEN arr[access] % 16 ELSE (arr[access] \div 16) * 16

\* bitmap_check: the masked byte, non-zero iff the counter is
bitmap_check(arr, index, offset) ==
  LET access == index \div 2 + offset
  IN IF index % 2 # 0 THEN arr[access] % 16 ELSE (arr[access] \div 16) * 16

\* bitmap_flush: msync of the whole mapping; ok is whether msync succeeds
bitmap_flush(f, d, ok) ==
  IF ok THEN [d |-> f, rc |-> 0] ELSE [d |-> d, rc |-> -1]

(***************************************************************************)
(* counting_bloom_t                                                        *)
(***************************************************************************)
\* hash_func without the reduction modulo counts_per_func
hash_func_unreduced(b, x, i) == (x.h1 + i * x.h2) % HashWrap

\* hash_func: hashes[i]
hash_func(b, x, i) == ((x.h1 + i * x.h2) % HashWrap) % b.counts_per_func

\* counting_bloom_init that starts the counters at offset, where the header is
counting_bloom_init_overhdr(capacity, error_exp, n, offset) ==
  LET nfuncs == error_exp + n + 1
      cpf == CeilDiv(capacity * (error_exp + n + 1) * 1000000,
                     nfuncs * 693147)
      size == nfuncs * cpf
  IN [capacity |-> capacity, offset |-> offset,
      nfuncs |-> nfuncs, counts_per_func |-> cpf, size |-> size,
      num_bytes |-> ((size + 1) \div 2) + CBHeaderSize, header |-> 0]

\* counting_bloom_init for the sub-filter created when num_blooms = n
counting_bloom_init(capacity, error_exp, n, offset) ==
  LET nfuncs == error_exp + n + 1
      cpf == CeilDiv(capacity * (error_exp + n + 1) * 1000000,
                     nfuncs * 693147)
      size == nfuncs * cpf
  IN [capacity |-> capacity, offset |-> offset + CBHeaderSize,
      nfuncs |-> nfuncs, counts_per_func |-> cpf, size |-> size,
      num_bytes |-> ((size + 1) \div 2) + CBHeaderSize, header |-> 0]

\* dereference of a counting_bloom_t's header pointer
HdrOff(s, b) == b.header - s.base
CBH(s, f, b) ==
  IF HdrOff(s, b) \in DOMAIN f.cbh THEN f.cbh[HdrOff(s, b)]
                                   ELSE [id |-> 0, count |-> 0]

RECURSIVE AddLoop(_, _, _, _, _)
AddLoop(arr, b, x, i, err) ==
  IF i = b.nfuncs THEN [array |-> arr, err |-> err]
  ELSE LET r == bitmap_increment(arr, hash_func(b, x, i) + i * b.counts_per_func, b.offset)
       IN AddLoop(r.array, b, x, i + 1, err \/ r.rc = -1)

\* counting_bloom_add: [f, rc, err]; err is whether a bitmap_increment returned -1
counting_bloom_add(s, f, b, x) ==
  LET r == AddLoop(f.array, b, x, 0, FALSE)
      h == CBH(s, f, b)
  IN [f |-> [f EXCEPT !.array = r.array,
                      !.cbh = [f.cbh EXCEPT ![HdrOff(s, b)] =
                                 [h EXCEPT !.count = (h.count + 1) % CountWrap]]],
      rc |-> 0, err |-> r.err]

RECURSIVE RemoveLoop(_, _, _, _, _)
RemoveLoop(arr, b, x, i, err) ==
  IF i = b.nfuncs THEN [array |-> arr, err |-> err]
  ELSE LET r == bitmap_decrement(arr, hash_func(b, x, i) + i * b.counts_per_func, b.offset)
       IN RemoveLoop(r.array, b, x, i + 1, err \/ r.rc = -1)

\* counting_bloom_remove that leaves the count of the header as it is
counting_bloom_remove_keepcount(s, f, b, x) ==
  LET r == RemoveLoop(f.array, b, x, 0, FALSE)
  IN [f |-> [f EXCEPT !.array = r.array], rc |-> 0, err |-> r.err]

\* counting_bloom_remove: [f, rc, err]; err is whether a bitmap_decrement returned -1
counting_bloom_remove(s, f, b, x) ==
  LET r == RemoveLoop(f.array, b, x, 0, FALSE)
      h == CBH(s, f, b)
  IN [f |-> [f EXCEPT !.array = r.array,
                      !.cbh = [f.cbh EXCEPT ![HdrOff(s, b)] =
                                 [h EXCEPT !.count = (h.count - 1 + CountWrap) % CountWrap]]],
      rc |-> 0, err |-> r.err]

\* counting_bloom_check: 1 iff all nfuncs counters are non-zero
counting_bloom_check(f, b, x) ==
  IF \A i \in 0..(b.nfuncs - 1) :
       bitmap_check(f.array, hash_func(b, x, i) + i * b.counts_per_func, b.offset) # 0
  THEN 1 ELSE 0

(***************************************************************************)
(* scaling_bloom_t                                                         *)
(***************************************************************************)
ZeroHdr == [max_id |-> 0, mem_seqnum |-> 0, disk_seqnum |-> 0]
ZeroCBH == [id |-> 0, count |-> 0]

\* ftruncate to a larger size: the new bytes read as zero
Extend(f, new_size) ==
  IF f.size < new_size
    THEN [f EXCEPT !.size = new_size,
                   !.array = [a \in 0..(new_size - 1) |->
                                IF a < f.size THEN f.array[a] ELSE 0]]
    ELSE f

\* bitmap_resize whose new mapping does not show the bytes of the old one
\* when it moves
bitmap_resize_fresh(s, f, d, old_size, new_size, nb) ==
  [s |-> [s EXCEPT !.base = nb, !.bytes = new_size],
   f |-> IF nb = s.base THEN Extend(f, new_size)
         ELSE [Extend(f, new_size) EXCEPT !.array = [a \in 0..(new_size - 1) |-> 0]],
   d |-> Extend(d, new_size)]

\* bitmap_resize: grows the file if it is shorter, remaps (the mapping may
\* move to nb) and records the new length: [s, f, d]
bitmap_resize(s, f, d, old_size, new_size, nb) ==
  [s |-> [s EXCEPT !.base = nb, !.bytes = new_size],
   f |-> Extend(f, new_size),
   d |-> Extend(d, new_size)]

\* the header of a sub-filter region that has none yet reads as zeros
WithCBH(f, off) ==
  IF off \in DOMAIN f.cbh THEN f
  ELSE [f EXCEPT !.cbh = [o \in DOMAIN f.cbh \cup {off} |->
                            IF o \in DOMAIN f.cbh THEN f.cbh[o] ELSE ZeroCBH]]

\* new_counting_bloom_from_scale that sets the header pointer of the new
\* sub-filter only
new_counting_bloom_from_scale_newonly(s, f, d, nb) ==
  LET cur == counting_bloom_init(s.capacity, s.error_exp, s.num_blooms, s.num_bytes)
      r == bitmap_resize(s, f, d, s.num_bytes, s.num_bytes + cur.num_bytes, nb)
      bl == Append(s.blooms, cur)
      off == cur.offset - CBHeaderSize
  IN [s |-> [r.s EXCEPT !.header = r.s.base,
                        !.num_blooms = s.num_blooms + 1,
                        !.blooms = [i \in DOMAIN bl |->
                                      IF i = Len(bl)
                                        THEN [bl[i] EXCEPT !.header = r.s.base + off]
                                        ELSE bl[i]],
                        !.num_bytes = s.num_bytes + cur.num_bytes],
      f |-> WithCBH(r.f, off),
      d |-> WithCBH(r.d, off)]

\* new_counting_bloom_from_scale that leaves num_bytes of the scaling filter
\* as it was
new_counting_bloom_from_scale_samebytes(s, f, d, nb) ==
  LET cur == counting_bloom_init(s.capacity, s.error_exp, s.num_blooms, s.num_bytes)
      r == bitmap_resize(s, f, d, s.num_bytes, s.num_bytes + cur.num_bytes, nb)
      bl == Append(s.blooms, cur)
      off == cur.offset - CBHeaderSize
  IN [s |-> [r.s EXCEPT !.header = r.s.base,
                        !.num_blooms = s.num_blooms + 1,
                        !.blooms = [i \in DOMAIN bl |->
                                      [bl[i] EXCEPT !.header =
                                         r.s.base + (bl[i].offset - CBHeaderSize)]]],
      f |-> WithCBH(r.f, off),
      d |-> WithCBH(r.d, off)]

\* new_counting_bloom_from_scale: [s, f, d]; the new sub-filter is the last of s.blooms
new_counting_bloom_from_scale(s, f, d, nb) ==
  LET cur == counting_bloom_init(s.capacity, s.error_exp, s.num_blooms, s.num_bytes)
      r == bitmap_resize(s, f, d, s.num_bytes, s.num_bytes + cur.num_bytes, nb)
      bl == Append(s.blooms, cur)
      off == cur.offset - CBHeaderSize
  IN [s |-> [r.s EXCEPT !.header = r.s.base,
                        !.num_blooms = s.num_blooms + 1,
                        !.blooms = [i \in DOMAIN bl |->
                                      [bl[i] EXCEPT !.header =
                                         r.s.base + (bl[i].offset - CBHeaderSize)]],
                        !.num_bytes = s.num_bytes + cur.num_bytes],
      f |-> WithCBH(r.f, off),
      d |-> WithCBH(r.d, off)]

\* scaling_bloom_clear_seqnums reading mem_seqnum after it has zeroed it
scaling_bloom_clear_seqnums_late(s, f, d, ok) ==
  LET dirty == f.hdr.disk_seqnum # 0
      f1 == IF dirty THEN [f EXCEPT !.hdr.disk_seqnum = 0] ELSE f
      d1 == IF dirty THEN bitmap_flush(f1, d, ok).d ELSE d
  IN [f |-> [f1 EXCEPT !.hdr.mem_seqnum = 0], d |-> d1,
      seqnum |-> 0, flushed |-> dirty]

\* scaling_bloom_clear_seqnums: [f, d, seqnum]; ok is the outcome of its msync
scaling_bloom_clear_seqnums(s, f, d, ok) ==
  LET dirty == f.hdr.disk_seqnum # 0
      f1 == IF dirty THEN [f EXCEPT !.hdr.disk_seqnum = 0] ELSE f
      d1 == IF dirty THEN bitmap_flush(f1, d, ok).d ELSE d
  IN [f |-> [f1 EXCEPT !.hdr.mem_seqnum = 0], d |-> d1,
      seqnum |-> f.hdr.mem_seqnum, flushed |-> dirty]

\* the sub-filters whose header id is <= id, as indices of s.blooms
Matching(s, f, id) == {i \in DOMAIN s.blooms : id >= CBH(s, f, s.blooms[i]).id}
Max(S) == CHOOSE m \in S : \A e \in S : e <= m

\* the loop of scaling_bloom_add without its test of the header id
AddTarget_newest(s, f, id) == s.num_blooms

\* the loop of scaling_bloom_add: the newest sub-filter whose id is <= id,
\* the oldest one when the loop runs to its end
AddTarget(s, f, id) ==
  IF Matching(s, f, id) # {} THEN Max(Matching(s, f, id)) ELSE 1

\* the sub-filter scaling_bloom_check_add is left with after its loop: the
\* loop never breaks, so cur_bloom ends as blooms[0] and is replaced by the
\* newest sub-filter only when no header id is <= id
CheckAddTarget(s, f, id) ==
  IF Matching(s, f, id) # {} THEN 1 ELSE s.num_blooms

SetCBH(s, f, b, h) == [f EXCEPT !.cbh = [f.cbh EXCEPT ![HdrOff(s, b)] = h]]

\* InsertInto giving the new sub-filter the id max_id instead of max_id + 1
InsertInto_sameid(s, f, d, x, id, t, seqnum, nb) ==
  LET cur0 == s.blooms[t]
      grow == (id > f.hdr.max_id) /\ (CBH(s, f, cur0).count >= cur0.capacity - 1)
      g  == IF grow THEN new_counting_bloom_from_scale(s, f, d, nb)
                    ELSE [s |-> s, f |-> f, d |-> d]
      cur == IF grow THEN g.s.blooms[g.s.num_blooms] ELSE cur0
      f1 == IF grow
              THEN SetCBH(g.s, g.f, cur, [id |-> f.hdr.max_id, count |-> 0])
              ELSE g.f
      f2 == IF f1.hdr.max_id < id THEN [f1 EXCEPT !.hdr.max_id = id] ELSE f1
      a  == counting_bloom_add(g.s, f2, cur, x)
  IN [s |-> g.s, f |-> [a.f EXCEPT !.hdr.mem_seqnum = seqnum + 1], d |-> g.d,
      err |-> a.err, grew |-> grow, crc |-> a.rc]

\* lines 745-755 of scaling_bloom_add, the same as 872-882 of
\* scaling_bloom_check_add: grow if needed, insert, bump the sequence number
InsertInto(s, f, d, x, id, t, seqnum, nb) ==
  LET cur0 == s.blooms[t]
      grow == (id > f.hdr.max_id) /\ (CBH(s, f, cur0).count >= cur0.capacity - 1)
      g  == IF grow THEN new_counting_bloom_from_scale(s, f, d, nb)
                    ELSE [s |-> s, f |-> f, d |-> d]
      cur == IF grow THEN g.s.blooms[g.s.num_blooms] ELSE cur0
      f1 == IF grow
              THEN SetCBH(g.s, g.f, cur, [id |-> f.hdr.max_id + 1, count |-> 0])
              ELSE g.f
      f2 == IF f1.hdr.max_id < id THEN [f1 EXCEPT !.hdr.max_id = id] ELSE f1
      a  == counting_bloom_add(g.s, f2, cur, x)
  IN [s |-> g.s, f |-> [a.f EXCEPT !.hdr.mem_seqnum = seqnum + 1], d |-> g.d,
      err |-> a.err, grew |-> grow, crc |-> a.rc]

\* scaling_bloom_add: [s, f, d, rc, err, grew, crc]
scaling_bloom_add(s, f, d, x, id, ok, nb) ==
  LET t == AddTarget(s, f, id)
      c == scaling_bloom_clear_seqnums(s, f, d, ok)
      r == InsertInto(s, c.f, c.d, x, id, t, c.seqnum, nb)
  IN [s |-> r.s, f |-> r.f, d |-> r.d, rc |-> 1, err |-> r.err, grew |-> r.grew,
      crc |-> r.crc]

\* scaling_bloom_remove: [s, f, d, rc, err]
scaling_bloom_remove(s, f, d, x, id, ok) ==
  IF Matching(s, f, id) = {}
    THEN [s |-> s, f |-> f, d |-> d, rc |-> 0, err |-> FALSE]
    ELSE LET cur == s.blooms[Max(Matching(s, f, id))]
             c == scaling_bloom_clear_seqnums(s, f, d, ok)
             r == counting_bloom_remove(s, c.f, cur, x)
         IN [s |-> s, f |-> [r.f EXCEPT !.hdr.mem_seqnum = c.seqnum + 1],
             d |-> c.d, rc |-> 1, err |-> r.err]

\* scaling_bloom_check looking into the newest sub-filter only
scaling_bloom_check_newest(s, f, x) ==
  IF s.num_blooms > 0 /\ counting_bloom_check(f, s.blooms[s.num_blooms], x) = 1
  THEN 1 ELSE 0

\* scaling_bloom_check
scaling_bloom_check(s, f, x) ==
  IF \E i \in DOMAIN s.blooms : counting_bloom_check(f, s.blooms[i], x) = 1
  THEN 1 ELSE 0

\* scaling_bloom_check_add: [s, f, d, rc, err, grew]
scaling_bloom_check_add(s, f, d, x, id, ok, nb) ==
  IF scaling_bloom_check(s, f, x) = 1
    THEN [s |-> s, f |-> f, d |-> d, rc |-> 1, err |-> FALSE, grew |-> FALSE]
    ELSE LET t == CheckAddTarget(s, f, id)
             c == scaling_bloom_clear_seqnums(s, f, d, ok)
             r == InsertInto(s, c.f, c.d, x, id, t, c.seqnum, nb)
         IN [s |-> r.s, f |-> r.f, d |-> r.d, rc |-> 0, err |-> r.err, grew |-> r.grew]

\* scaling_bloom_flush storing disk_seqnum before its first msync
scaling_bloom_flush_early(s, f, d, ok1, ok2) ==
  LET f1 == [f EXCEPT !.hdr.disk_seqnum = f.hdr.mem_seqnum]
      r1 == bitmap_flush(f1, d, ok1)
  IN [f |-> f1, d |-> r1.d, rc |-> r1.rc, stored |-> TRUE]

\* scaling_bloom_flush: [f, d, rc, stored]; ok1, ok2 are the outcomes of its
\* two msync calls, stored is whether it wrote disk_seqnum
scaling_bloom_flush(s, f, d, ok1, ok2) ==
  LET r1 == bitmap_flush(f, d, ok1)
  IN IF r1.rc # 0 THEN [f |-> f, d |-> r1.d, rc |-> -1, stored |-> FALSE]
     ELSE IF f.hdr.disk_seqnum = 0
       THEN LET f1 == [f EXCEPT !.hdr.disk_seqnum = f.hdr.mem_seqnum]
                r2 == bitmap_flush(f1, r1.d, ok2)
            IN [f |-> f1, d |-> r2.d, rc |-> r2.rc, stored |-> TRUE]
       ELSE [f |-> f, d |-> r1.d, rc |-> 0, stored |-> FALSE]

\* new_bitmap(fd, sizeof(scaling_bloom_header_t)) on a file of the given content
\* followed by the assignments of scaling_bloom_init: [s, f, d]
scaling_bloom_init(capacity, error_exp, f, d, nb) ==
  LET s0 == [open |-> TRUE, capacity |-> capacity, error_exp |-> error_exp,
             num_blooms |-> 0, num_bytes |-> TopHeaderSize, blooms |-> <<>>,
             header |-> nb, base |-> nb, bytes |-> TopHeaderSize]
  IN bitmap_resize(s0, f, d, 0, TopHeaderSize, nb)

\* the file after open(O_CREAT | O_TRUNC)
EmptyFile == [size |-> 0, hdr |-> ZeroHdr, cbh |-> <<>>, array |-> <<>>]

\* new_scaling_bloom: [s, f, d]
\* new_scaling_bloom that leaves mem_seqnum as the new file has it
new_scaling_bloom_noseq(capacity, error_exp, nb1, nb2) ==
  LET i == scaling_bloom_init(capacity, error_exp, EmptyFile, EmptyFile, nb1)
      g == new_counting_bloom_from_scale(i.s, i.f, i.d, nb2)
      cur == g.s.blooms[g.s.num_blooms]
      f1 == SetCBH(g.s, g.f, cur, [id |-> 0, count |-> 0])
  IN [s |-> g.s, f |-> f1, d |-> g.d]

new_scaling_bloom(capacity, error_exp, nb1, nb2) ==
  LET i == scaling_bloom_init(capacity, error_exp, EmptyFile, EmptyFile, nb1)
      g == new_counting_bloom_from_scale(i.s, i.f, i.d, nb2)
      cur == g.s.blooms[g.s.num_blooms]
      f1 == SetCBH(g.s, g.f, cur, [id |-> 0, count |-> 0])
  IN [s |-> g.s, f |-> [f1 EXCEPT !.hdr.mem_seqnum = 1], d |-> g.d]

\* free_scaling_bloom: the sub-filter structs are freed, the mapping is
\* unmapped and the descriptor closed; the file keeps its content
free_scaling_bloom(s) ==
  [s EXCEPT !.open = FALSE, !.blooms = <<>>, !.num_blooms = 0]

\* the loop of new_scaling_bloom_from_file zeroing each header it maps, as
\* new_scaling_bloom does
RECURSIVE FromFileLoop_zeroing(_, _, _, _, _)
FromFileLoop_zeroing(s, f, d, size, nb) ==
  IF size = 0 THEN [s |-> s, f |-> f, d |-> d, ok |-> TRUE]
  ELSE LET g == new_counting_bloom_from_scale(s, f, d, nb)
           cur == g.s.blooms[g.s.num_blooms]
           rest == size - cur.num_bytes
           z == SetCBH(g.s, g.f, cur, ZeroCBH)
       IN IF rest < 0
            THEN [s |-> free_scaling_bloom(g.s), f |-> g.f, d |-> g.d, ok |-> FALSE]
            ELSE FromFileLoop_zeroing(g.s, z, g.d, rest, nb)

\* the loop of new_scaling_bloom_from_file taking a file that ends inside a
\* sub-filter
RECURSIVE FromFileLoop_lenient(_, _, _, _, _)
FromFileLoop_lenient(s, f, d, size, nb) ==
  IF size <= 0 THEN [s |-> s, f |-> f, d |-> d, ok |-> TRUE]
  ELSE LET g == new_counting_bloom_from_scale(s, f, d, nb)
           rest == size - g.s.blooms[g.s.num_blooms].num_bytes
       IN FromFileLoop_lenient(g.s, g.f, g.d, rest, nb)

\* the loop of new_scaling_bloom_from_file: size is what is left of the file
RECURSIVE FromFileLoop(_, _, _, _, _)
FromFileLoop(s, f, d, size, nb) ==
  IF size = 0 THEN [s |-> s, f |-> f, d |-> d, ok |-> TRUE]
  ELSE LET g == new_counting_bloom_from_scale(s, f, d, nb)
           rest == size - g.s.blooms[g.s.num_blooms].num_bytes
       IN IF rest < 0
            THEN [s |-> free_scaling_bloom(g.s), f |-> g.f, d |-> g.d, ok |-> FALSE]
            ELSE FromFileLoop(g.s, g.f, g.d, rest, nb)

\* new_scaling_bloom_from_file: [s, f, d, ok]
new_scaling_bloom_from_file(capacity, error_exp, f, d, nb) ==
  LET i == scaling_bloom_init(capacity, error_exp, f, d, nb)
  IN FromFileLoop(i.s, i.f, i.d, f.size - TopHeaderSize, nb)

(***************************************************************************)
(* struct bloom: the basic bit-array filter.  bf is the byte buffer of     *)
(* bloom_init, bf64 the 64-bit word buffer of bloom_init_64; a word is the *)
(* set of its bit numbers that are 1.                                      *)
(***************************************************************************)
Pow2(n) == 2^n
Floor(a, b) == a \div b

NoBloom == [ready |-> 0, bits |-> 0, bytes |-> 0, qwords |-> 0, hashes |-> 0,
            bf |-> <<>>, bf64 |-> <<>>, live |-> FALSE]

\* the sizes bloom_init and bloom_init_64 derive: bpe = -ln(error)/ln(2)^2,
\* bits = (size_t)(entries * bpe), hashes = ceil(ln(2) * bpe)
BloomBits(entries, error_exp) == Floor(entries * error_exp * 1000000, 693147)
BloomHashes(error_exp) == error_exp

\* bloom_init (success path): a zeroed byte buffer
bloom_init(entries, error_exp) ==
  LET bits == BloomBits(entries, error_exp)
      bytes == IF bits % 8 # 0 THEN (bits \div 8) + 1 ELSE bits \div 8
  IN [ready |-> 1, bits |-> bits, bytes |-> bytes, qwords |-> 0,
      hashes |-> BloomHashes(error_exp),
      bf |-> [a \in 0..(bytes - 1) |-> 0], bf64 |-> <<>>, live |-> TRUE]

\* bloom_init_64 (success path): a zeroed buffer of 64-bit words
bloom_init_64(entries, error_exp) ==
  LET bits == BloomBits(entries, error_exp)
      qwords == IF bits % 64 # 0 THEN (bits \div 64) + 1 ELSE bits \div 64
  IN [ready |-> 1, bits |-> bits, bytes |-> qwords * 8, qwords |-> qwords,
      hashes |-> BloomHashes(error_exp),
      bf |-> <<>>, bf64 |-> [q \in 0..(qwords - 1) |-> {}], live |-> TRUE]

\* x = (a + i*b) % bloom->bits
BloomPos(bl, x, i) == ((x.h1 + i * x.h2) % HashWrap) % bl.bits

\* test_bit_set_bit: [buf, rc]
\* test_bit_set_bit that only tests
test_bit_set_bit_testonly(buf, x, set_bit) ==
  LET byte_offset == x \div 8
      c == buf[byte_offset]
      mask == Pow2(x % 8)
  IN IF (c \div mask) % 2 = 1 THEN [buf |-> buf, rc |-> 1]
                               ELSE [buf |-> buf, rc |-> 0]

test_bit_set_bit(buf, x, set_bit) ==
  LET byte_offset == x \div 8
      c == buf[byte_offset]
      mask == Pow2(x % 8)
  IN IF (c \div mask) % 2 = 1
       THEN [buf |-> buf, rc |-> 1]
       ELSE [buf |-> IF set_bit # 0 THEN [buf EXCEPT ![byte_offset] = c + mask] ELSE buf,
             rc |-> 0]

\* the loop of bloom_check_add: [buf, rc] with rc = 1 iff hits = hashes
RECURSIVE CheckAddLoop(_, _, _, _, _, _)
CheckAddLoop(bl, buf, x, i, hits, add) ==
  IF i = bl.hashes THEN [buf |-> buf, rc |-> IF hits = bl.hashes THEN 1 ELSE 0]
  ELSE LET t == test_bit_set_bit(buf, BloomPos(bl, x, i), add)
       IN IF t.rc = 1 THEN CheckAddLoop(bl, t.buf, x, i + 1, hits + 1, add)
          ELSE IF add = 0 THEN [buf |-> t.buf, rc |-> 0]
          ELSE CheckAddLoop(bl, t.buf, x, i + 1, hits, add)

\* bloom_check_add: [bl, rc]
bloom_check_add(bl, x, add) ==
  IF bl.ready = 0 THEN [bl |-> bl, rc |-> -1]
  ELSE LET r == CheckAddLoop(bl, bl.bf, x, 0, 0, add)
       IN [bl |-> [bl EXCEPT !.bf = r.buf], rc |-> r.rc]

\* the bit of the 64-bit word buffer position x addresses
Bit64(buf, x) == (x % 64) \in buf[x \div 64]

\* first pass of bloom_check_add_64: the number of hits
RECURSIVE Hits64(_, _, _)
Hits64(bl, x, i) ==
  IF i = bl.hashes THEN 0
  ELSE (IF Bit64(bl.bf64, BloomPos(bl, x, i)) THEN 1 ELSE 0) + Hits64(bl, x, i + 1)

\* second pass of bloom_check_add_64 setting the first position only
SetAll64_first(bl, buf, x, i) ==
  LET pos == BloomPos(bl, x, 0)
  IN [buf EXCEPT ![pos \div 64] = @ \cup {pos % 64}]

\* second pass of bloom_check_add_64: every position set
RECURSIVE SetAll64(_, _, _, _)
SetAll64(bl, buf, x, i) ==
  IF i = bl.hashes THEN buf
  ELSE LET pos == BloomPos(bl, x, i)
       IN SetAll64(bl, [buf EXCEPT ![pos \div 64] = @ \cup {pos % 64}], x, i + 1)

\* bloom_check_add_64 reporting present on any hit
bloom_check_add_64_anyhit(bl, x) ==
  IF Hits64(bl, x, 0) > 0
    THEN [bl |-> bl, rc |-> 1]
    ELSE [bl |-> [bl EXCEPT !.bf64 = SetAll64(bl, bl.bf64, x, 0)], rc |-> 0]

\* bloom_check_add_64: [bl, rc]
bloom_check_add_64(bl, x) ==
  IF Hits64(bl, x, 0) = bl.hashes
    THEN [bl |-> bl, rc |-> 1]
    ELSE [bl |-> [bl EXCEPT !.bf64 = SetAll64(bl, bl.bf64, x, 0)], rc |-> 0]

\* bloom_reset: [bl, rc]
bloom_reset(bl) ==
  IF bl.ready = 0 THEN [bl |-> bl, rc |-> 1]
  ELSE [bl |-> [bl EXCEPT !.bf = [a \in DOMAIN bl.bf |-> 0],
                          !.bf64 = [q \in DOMAIN bl.bf64 |-> {}]],
        rc |-> 0]

\* bloom_free: the buffer is released, the pointer is left in place
bloom_free(bl) == [bl EXCEPT !.ready = 0, !.live = FALSE]

(***************************************************************************)
(* struct enhanced_counting_bloom                                          *)
(***************************************************************************)
NoEcb == [ready |-> 0, counters |-> 0, hashes |-> 0, counts |-> <<>>,
          total_insertions |-> 0, unique_insertions |-> 0]

\* get_counter
get_counter(counts, pos) ==
  IF pos % 2 = 0 THEN counts[pos \div 2] % 16 ELSE counts[pos \div 2] \div 16

\* set_counter
\* set_counter that stores the value as the whole byte of an even position
set_counter_wholebyte(counts, pos, value) ==
  IF pos % 2 = 0
    THEN [counts EXCEPT ![pos \div 2] = value % 16]
    ELSE [counts EXCEPT ![pos \div 2] = (@ % 16) + (value % 16) * 16]

set_counter(counts, pos, value) ==
  IF pos % 2 = 0
    THEN [counts EXCEPT ![pos \div 2] = (@ \div 16) * 16 + (value % 16)]
    ELSE [counts EXCEPT ![pos \div 2] = (@ % 16) + (value % 16) * 16]

\* increment_counter without the test for 15
increment_counter_wrapping(counts, pos) ==
  set_counter(counts, pos, get_counter(counts, pos) + 1)

\* increment_counter
increment_counter(counts, pos) ==
  LET current == get_counter(counts, pos)
  IN IF current < 15 THEN set_counter(counts, pos, current + 1) ELSE counts

\* enhanced_counting_bloom_init (success path)
enhanced_counting_bloom_init(entries, error_exp) ==
  LET bits == BloomBits(entries, error_exp)
  IN [ready |-> 1, counters |-> bits, hashes |-> BloomHashes(error_exp),
      counts |-> [a \in 0..(((bits + 1) \div 2) - 1) |-> 0],
      total_insertions |-> 0, unique_insertions |-> 0]

EcbPos(e, x, i) == ((x.h1 + i * x.h2) % HashWrap) % e.counters

RECURSIVE IncLoop(_, _, _, _)
IncLoop(e, counts, x, i) ==
  IF i = e.hashes THEN counts
  ELSE IncLoop(e, increment_counter(counts, EcbPos(e, x, i)), x, i + 1)

\* enhanced_counting_bloom_add looking for a zero counter after its increments
enhanced_counting_bloom_add_late(e, x) ==
  IF e.ready = 0 THEN [e |-> e, rc |-> -1]
  ELSE LET counts == IncLoop(e, e.counts, x, 0)
           all_present == \A i \in 0..(e.hashes - 1) :
                             get_counter(counts, EcbPos(e, x, i)) # 0
       IN [e |-> [e EXCEPT !.counts = counts,
                           !.total_insertions = @ + 1,
                           !.unique_insertions = IF all_present THEN @ ELSE @ + 1],
           rc |-> IF all_present THEN 1 ELSE 0]

\* enhanced_counting_bloom_add: [e, rc]
enhanced_counting_bloom_add(e, x) ==
  IF e.ready = 0 THEN [e |-> e, rc |-> -1]
  ELSE LET all_present == \A i \in 0..(e.hashes - 1) :
                             get_counter(e.counts, EcbPos(e, x, i)) # 0
       IN [e |-> [e EXCEPT !.counts = IncLoop(e, e.counts, x, 0),
                           !.total_insertions = @ + 1,
                           !.unique_insertions = IF all_present THEN @ ELSE @ + 1],
           rc |-> IF all_present THEN 1 ELSE 0]

\* enhanced_counting_bloom_check
enhanced_counting_bloom_check(e, x) ==
  IF e.ready = 0 THEN -1
  ELSE IF \A i \in 0..(e.hashes - 1) : get_counter(e.counts, EcbPos(e, x, i)) # 0
       THEN 1 ELSE 0

\* the loop of enhanced_counting_bloom_get_count and of
\* enhanced_counting_bloom_check_add_count: min_count starts at 15
RECURSIVE MinLoop(_, _, _, _)
MinLoop(e, x, i, min_count) ==
  IF i = e.hashes THEN min_count
  ELSE LET count == get_counter(e.counts, EcbPos(e, x, i))
       IN MinLoop(e, x, i + 1, IF count < min_count THEN count ELSE min_count)

\* enhanced_counting_bloom_get_count
enhanced_counting_bloom_get_count(e, x) ==
  IF e.ready = 0 THEN -1 ELSE MinLoop(e, x, 0, 15)

\* enhanced_counting_bloom_check_add_count: [e, rc]
enhanced_counting_bloom_check_add_count(e, x) ==
  IF e.ready = 0 THEN [e |-> e, rc |-> -1]
  ELSE LET min_count == MinLoop(e, x, 0, 15)
       IN [e |-> [e EXCEPT !.counts = IncLoop(e, e.counts, x, 0),
                           !.total_insertions = @ + 1,
                           !.unique_insertions = IF min_count = 0 THEN @ + 1 ELSE @],
           rc |-> min_count]

(***************************************************************************)
(* The calls a program makes on its scaling filter.                        *)
(***************************************************************************)
\* a page of the file image f copied over the same page of d
PageOf(off) == off \div PageSize
CopyPage(f, d, p) ==
  [size  |-> d.size,
   hdr   |-> IF p = PageOf(0) THEN f.hdr ELSE d.hdr,
   cbh   |-> [o \in DOMAIN d.cbh |-> IF PageOf(o) = p THEN f.cbh[o] ELSE d.cbh[o]],
   array |-> [a \in DOMAIN d.array |-> IF PageOf(a) = p THEN f.array[a] ELSE d.array[a]]]

Step(op) ==
  /\ left > 0
  /\ left' = left - 1
  /\ lastop' = [op EXCEPT !.rep = (lastop.op = op.op /\ lastop.item = op.item),
                          !.same = (lastop.same /\ lastop.op \in {"none", op.op}),
                          !.undo = (/\ op.op = "remove" /\ lastop.op = "add"
                                    /\ lastop.item = op.item /\ lastop.id = op.id
                                    /\ ~lastop.err /\ ~lastop.grew)]
  /\ kind' = kind
  /\ pool' = pool /\ threads' = threads /\ hist' = hist

\* a call on the scaling filter
SStep(op) == Step(op) /\ UNCHANGED <<bloom, binserted, ecb, eadded>>

\* msync can fail only where it is called, the mapping can move only on growth
FlushOutcomes == IF file.hdr.disk_seqnum # 0 THEN BOOLEAN ELSE {TRUE}
Moves(grew, nb) == grew \/ nb = sbf.base

Add(x, id, ok, nb) ==
  /\ kind = "scaling" /\ sbf.open
  /\ \E r \in {scaling_bloom_add(sbf, file, disk, x, id, ok, nb)} :
        /\ Moves(r.grew, nb)
        /\ sbf' = r.s /\ file' = r.f /\ disk' = r.d
        /\ ret' = r.rc
        /\ SStep([NoOp EXCEPT !.op = "add", !.item = x, !.id = id, !.err = r.err,
                             !.f1 = ok, !.grew = r.grew, !.crc = r.crc, !.pre = file])
  /\ inserted' = inserted \cup {x}
  /\ UNCHANGED <<snap, removed, preclose>>

CheckAdd(x, id, ok, nb) ==
  /\ kind = "scaling" /\ sbf.open
  /\ \E r \in {scaling_bloom_check_add(sbf, file, disk, x, id, ok, nb)} :
        /\ Moves(r.grew, nb)
        /\ r.rc = 1 => ok
        /\ sbf' = r.s /\ file' = r.f /\ disk' = r.d
        /\ ret' = r.rc
        /\ SStep([NoOp EXCEPT !.op = "check_add", !.item = x, !.id = id, !.err = r.err,
                             !.f1 = ok, !.grew = r.grew])
        /\ inserted' = IF r.rc = 0 THEN inserted \cup {x} ELSE inserted
  /\ UNCHANGED <<snap, removed, preclose>>

Remove(x, id, ok) ==
  /\ kind = "scaling" /\ sbf.open
  /\ \E r \in {scaling_bloom_remove(sbf, file, disk, x, id, ok)} :
        /\ r.rc = 0 => ok
        /\ sbf' = r.s /\ file' = r.f /\ disk' = r.d
        /\ ret' = r.rc
        /\ SStep([NoOp EXCEPT !.op = "remove", !.item = x, !.id = id, !.err = r.err,
                             !.f1 = ok])
        /\ removed' = (removed \/ r.rc = 1)
  /\ UNCHANGED <<snap, inserted, preclose>>

Check(x) ==
  /\ kind = "scaling" /\ sbf.open
  /\ ret' = scaling_bloom_check(sbf, file, x)
  /\ SStep([NoOp EXCEPT !.op = "check", !.item = x])
  /\ UNCHANGED scalingVars

Flush(ok1, ok2) ==
  /\ kind = "scaling" /\ sbf.open
  /\ \E r \in {scaling_bloom_flush(sbf, file, disk, ok1, ok2)} :
        /\ r.stored \/ ok2
        /\ file' = r.f /\ disk' = r.d
        /\ ret' = r.rc
        /\ snap' = IF r.stored THEN r.f ELSE snap
        /\ SStep([NoOp EXCEPT !.op = "flush", !.f1 = ok1, !.f2 = ok2])
  /\ UNCHANGED <<sbf, inserted, removed, preclose>>

\* the kernel writes one dirty page of the shared mapping back to storage
Writeback(p) ==
  /\ kind = "scaling" /\ sbf.open
  /\ disk' = CopyPage(file, disk, p)
  /\ disk' # disk
  /\ ret' = 0
  /\ SStep([NoOp EXCEPT !.op = "writeback", !.id = p])
  /\ UNCHANGED <<sbf, file, snap, inserted, removed, preclose>>

\* what the caller can read off the filter before closing it
Shape(s, f) ==
  [num_blooms |-> s.num_blooms, max_id |-> f.hdr.max_id,
   headers |-> [i \in DOMAIN s.blooms |-> CBH(s, f, s.blooms[i])]]

Free ==
  /\ kind = "scaling" /\ sbf.open
  /\ preclose' = Shape(sbf, file)
  /\ sbf' = free_scaling_bloom(sbf)
  /\ ret' = 0
  /\ SStep([NoOp EXCEPT !.op = "free"])
  /\ UNCHANGED <<file, disk, snap, inserted, removed>>

FromFile(nb) ==
  /\ kind = "scaling" /\ ~sbf.open
  /\ \E r \in {new_scaling_bloom_from_file(sbf.capacity, sbf.error_exp, file, disk, nb)} :
        /\ sbf' = r.s /\ file' = r.f /\ disk' = r.d
        /\ ret' = IF r.ok THEN 1 ELSE 0
  /\ SStep([NoOp EXCEPT !.op = "from_file"])
  /\ UNCHANGED <<snap, inserted, removed, preclose>>

\* the state new_scaling_bloom returns
ScalingInit(n) ==
  \E r \in {new_scaling_bloom(Capacity, ErrorExp, 1000, 1000)} :
       /\ kind = "scaling"
       /\ sbf = r.s /\ file = r.f /\ disk = r.d
       /\ snap = r.f
       /\ inserted = {} /\ removed = FALSE
       /\ preclose = Shape(r.s, r.f)
       /\ bloom = NoBloom /\ binserted = {} /\ ecb = NoEcb
       /\ eadded = NoAdds /\ pool = NoPool /\ threads = NoThreads /\ hist = NoHist
       /\ lastop = NoOp /\ ret = 0 /\ left = n

\* the ids a caller passes: an old one, the largest seen, a larger one
IdChoices == {0, file.hdr.max_id, file.hdr.max_id + 1} \cap Ids

(***************************************************************************)
(* The calls a program makes on its basic filter.                          *)
(***************************************************************************)
BStep(op) == Step(op) /\ UNCHANGED scalingVars /\ UNCHANGED <<ecb, eadded>>

\* bloom_check_add_64 on a filter set up by bloom_init_64; on a released
\* buffer the words it reads are arbitrary
BloomCheckAdd64(x, junk) ==
  /\ kind = "basic64"
  /\ \/ /\ bloom.live /\ junk = 0
        /\ \E r \in {bloom_check_add_64(bloom, x)} :
              /\ bloom' = r.bl /\ ret' = r.rc
              /\ binserted' = IF r.rc = 0 THEN binserted \cup {x} ELSE binserted
     \/ /\ ~bloom.live
        /\ bloom' = bloom /\ ret' = junk /\ binserted' = binserted
  /\ BStep([NoOp EXCEPT !.op = "bloom_check_add_64", !.item = x])

\* bloom_check (add = 0) and bloom_add (add = 1) on a filter set up by bloom_init
BloomCheckAdd(x, add) ==
  /\ kind = "basic8"
  /\ \E r \in {bloom_check_add(bloom, x, add)} :
        /\ bloom' = r.bl /\ ret' = r.rc
        /\ binserted' = IF add = 1 /\ r.rc # -1 THEN binserted \cup {x} ELSE binserted
  /\ BStep([NoOp EXCEPT !.op = "bloom_check_add", !.item = x, !.id = add])

BloomReset ==
  /\ kind \in {"basic64", "basic8"}
  /\ \E r \in {bloom_reset(bloom)} :
        /\ bloom' = r.bl /\ ret' = r.rc
        /\ binserted' = IF r.rc = 0 THEN {} ELSE binserted
  /\ BStep([NoOp EXCEPT !.op = "bloom_reset"])

BloomFree ==
  /\ kind \in {"basic64", "basic8"}
  /\ bloom.live
  /\ bloom' = bloom_free(bloom)
  /\ binserted' = {}
  /\ ret' = 0
  /\ BStep([NoOp EXCEPT !.op = "bloom_free"])

BloomInit ==
  /\ kind \in {"basic64", "basic8"}
  /\ ~bloom.live
  /\ bloom' = IF kind = "basic64" THEN bloom_init_64(Entries, BloomErrorExp)
                                  ELSE bloom_init(Entries, BloomErrorExp)
  /\ binserted' = {}
  /\ ret' = 0
  /\ BStep([NoOp EXCEPT !.op = "bloom_init"])

\* a run that does not use the scaling filter
NoSbf == [open |-> FALSE, capacity |-> Capacity, error_exp |-> ErrorExp,
          num_blooms |-> 0, num_bytes |-> 0, blooms |-> <<>>,
          header |-> 0, base |-> 0, bytes |-> 0]
NoScaling ==
  /\ sbf = NoSbf /\ file = EmptyFile /\ disk = EmptyFile /\ snap = EmptyFile
  /\ inserted = {} /\ removed = FALSE /\ preclose = Shape(NoSbf, EmptyFile)

\* the state bloom_init_64 / bloom_init returns
BasicInit(n) ==
  /\ kind \in {"basic64", "basic8"}
  /\ NoScaling
  /\ bloom = IF kind = "basic64" THEN bloom_init_64(Entries, BloomErrorExp)
                                 ELSE bloom_init(Entries, BloomErrorExp)
  /\ binserted = {} /\ ecb = NoEcb
  /\ eadded = NoAdds /\ pool = NoPool /\ threads = NoThreads /\ hist = NoHist
  /\ lastop = NoOp /\ ret = 0 /\ left = n

(***************************************************************************)
(* The calls a program makes on its enhanced counting filter.              *)
(***************************************************************************)
EcbAdd(x) ==
  /\ kind = "counting"
  /\ \E r \in {enhanced_counting_bloom_add(ecb, x)} :
        /\ ecb' = r.e /\ ret' = r.rc
        /\ eadded' = IF r.rc # -1 THEN [eadded EXCEPT ![x] = @ + 1] ELSE eadded
  /\ Step([NoOp EXCEPT !.op = "ecb_add", !.item = x])
  /\ UNCHANGED scalingVars /\ UNCHANGED basicVars

EStep(op) == Step(op) /\ UNCHANGED scalingVars /\ UNCHANGED basicVars

EcbCheck(x) ==
  /\ kind = "counting"
  /\ ret' = enhanced_counting_bloom_check(ecb, x)
  /\ EStep([NoOp EXCEPT !.op = "ecb_check", !.item = x])
  /\ UNCHANGED <<ecb, eadded>>

EcbGetCount(x) ==
  /\ kind = "counting"
  /\ ret' = enhanced_counting_bloom_get_count(ecb, x)
  /\ EStep([NoOp EXCEPT !.op = "ecb_get_count", !.item = x])
  /\ UNCHANGED <<ecb, eadded>>

EcbCheckAddCount(x) ==
  /\ kind = "counting"
  /\ \E r \in {enhanced_counting_bloom_check_add_count(ecb, x)} :
        /\ ecb' = r.e /\ ret' = r.rc
        /\ eadded' = IF r.rc # -1 THEN [eadded EXCEPT ![x] = @ + 1] ELSE eadded
  /\ EStep([NoOp EXCEPT !.op = "ecb_check_add_count", !.item = x])

\* the state enhanced_counting_bloom_init returns
CountingInit(n) ==
  /\ kind = "counting"
  /\ NoScaling
  /\ bloom = NoBloom /\ binserted = {}
  /\ ecb = enhanced_counting_bloom_init(Entries, BloomErrorExp)
  /\ eadded = NoAdds /\ pool = NoPool /\ threads = NoThreads /\ hist = NoHist
  /\ lastop = NoOp /\ ret = 0 /\ left = n

(***************************************************************************)
(* Spec: the calls of the filter API made by one single-threaded caller.   *)
(***************************************************************************)
ScalingNext ==
  \/ \E x \in Items, id \in IdChoices, nb \in Bases : Add(x, id, TRUE, nb)
  \/ \E x \in Items, id \in IdChoices, nb \in Bases : CheckAdd(x, id, TRUE, nb)
  \/ \E x \in Items, id \in IdChoices : Remove(x, id, TRUE)
  \/ \E x \in Items : Check(x)

BasicNext ==
  \/ \E x \in Items, junk \in {0, 1} : BloomCheckAdd64(x, junk)
  \/ \E x \in Items, add \in {0, 1} : BloomCheckAdd(x, add)
  \/ BloomReset
  \/ BloomFree
  \/ BloomInit

Init == ScalingInit(MaxSteps) \/ BasicInit(MaxSteps)
Next == ScalingNext \/ BasicNext
Spec == Init /\ [][Next]_vars

(***************************************************************************)
(* SpecPersist: the life of the backing file: inserts, flushes (msync may  *)
(* fail), write-back of single pages, close and reopen.                    *)
(***************************************************************************)
PersistItems == {ItemB, ItemC}

PersistNext ==
  \/ \E x \in PersistItems, ok \in FlushOutcomes, nb \in Bases :
       Add(x, file.hdr.max_id + 1, ok, nb)
  \/ \E ok \in FlushOutcomes, nb \in Bases : CheckAdd(ItemB, file.hdr.max_id + 1, ok, nb)
  \/ \E ok \in FlushOutcomes : Remove(ItemC, 0, ok)
  \/ \E ok1, ok2 \in BOOLEAN : Flush(ok1, ok2)
  \/ \E p \in 0..PageOf(file.size) : Writeback(p)
  \/ Free
  \/ \E nb \in Bases : FromFile(nb)

SpecPersist == ScalingInit(MaxPersistSteps) /\ [][PersistNext]_vars

(***************************************************************************)
(* SpecSat: long runs of adds and removes of two items whose counters      *)
(* share a byte, on the scaling and on the enhanced counting filter.       *)
(***************************************************************************)
SatItems == {ItemA, ItemC}

SatNext ==
  \/ \E x \in SatItems : Add(x, 0, TRUE, sbf.base)
  \/ \E x \in SatItems : Remove(x, 0, TRUE)
  \/ \E x \in SatItems : EcbAdd(x)

SpecSat == (ScalingInit(MaxSatSteps) \/ CountingInit(MaxSatSteps)) /\ [][SatNext]_vars

(***************************************************************************)
(* SpecCount: long runs of the calls of the enhanced counting filter.      *)
(***************************************************************************)
MaxCountSteps == 17

CountNext ==
  \/ \E x \in SatItems : EcbAdd(x)
  \/ \E x \in SatItems : EcbCheck(x)
  \/ \E x \in SatItems : EcbGetCount(x)
  \/ \E x \in SatItems : EcbCheckAddCount(x)

SpecCount == CountingInit(MaxCountSteps) /\ [][CountNext]_vars

(***************************************************************************)
(* SpecOpen: a filter is filled and closed, its file is cut or lengthened  *)
(* by someone else, and the file is opened again.                          *)
(***************************************************************************)
MaxOpenSteps == 6
MaxFile == 72

\* the file set to n bytes while no filter maps it: bytes past n are lost,
\* new bytes read as zero, a header that no longer fits is lost with them
Resized(f, n) ==
  [size  |-> n,
   hdr   |-> IF n >= TopHeaderSize THEN f.hdr ELSE ZeroHdr,
   cbh   |-> [o \in {q \in DOMAIN f.cbh : q + CBHeaderSize <= n} |-> f.cbh[o]],
   array |-> [a \in 0..(n - 1) |-> IF a < f.size THEN f.array[a] ELSE 0]]

Corrupt(n) ==
  /\ kind = "scaling" /\ ~sbf.open /\ n # file.size
  /\ file' = Resized(file, n) /\ disk' = Resized(disk, n)
  /\ ret' = 0
  /\ SStep([NoOp EXCEPT !.op = "corrupt", !.id = n])
  /\ UNCHANGED <<sbf, snap, inserted, removed, preclose>>

OpenNext ==
  \/ \E x \in PersistItems :
       sbf.num_blooms > 0 /\ Add(x, file.hdr.max_id + 1, TRUE, sbf.base)
  \/ \E x \in PersistItems : Check(x)
  \/ Free
  \/ \E n \in 0..MaxFile : Corrupt(n)
  \/ \E nb \in Bases : FromFile(nb)

SpecOpen == ScalingInit(MaxOpenSteps) /\ [][OpenNext]_vars

(***************************************************************************)
(* SpecCreate: a program closes its filter and creates a new one with      *)
(* parameters of its choice, some of which counting_bloom_init refuses.    *)
(***************************************************************************)
MaxCreateSteps == 6
\* the least and the largest capacity counting_bloom_init takes (1000 and
\* UINT_MAX / 100 in the source, scaled as Capacity is)
MinCapacity == 2
MaxCapacity == 8

\* the checks at the head of counting_bloom_init for the sub-filter created
\* when num_blooms = n: its error rate is error_rate * 0.5^(n + 1), that is
\* 2^-(error_exp + n + 1), which must lie strictly between 0 and 1
counting_bloom_init_refuses(capacity, error_exp, n) ==
  \/ capacity < MinCapacity \/ capacity > MaxCapacity
  \/ error_exp + n + 1 <= 0

\* what a caller may pass: a capacity below, within and above the range, an
\* error rate of 2.0, 1.0 and 2^-ErrorExp
CapacityChoices == {MinCapacity - 1, Capacity, MaxCapacity + 1}
ErrorExpChoices == {-1, 0, ErrorExp}

\* new_scaling_bloom(capacity, error_rate, filename).  When
\* counting_bloom_init refuses the parameters it returns NULL, and
\* new_counting_bloom_from_scale reads cur_bloom->num_bytes through that
\* pointer: the process dies there, after the file was created and grown to
\* the top header, and nothing is returned to the caller.
NewScalingBloom(capacity, error_exp, nb1, nb2) ==
  /\ kind = "scaling" /\ ~sbf.open /\ left > 0
  /\ IF counting_bloom_init_refuses(capacity, error_exp, 0)
       THEN \E i \in {scaling_bloom_init(capacity, error_exp, EmptyFile, EmptyFile, nb1)} :
              /\ file' = i.f /\ disk' = i.d
              /\ sbf' = sbf /\ ret' = ret /\ left' = 0
              /\ lastop' = [NoOp EXCEPT !.op = "new_scaling_bloom", !.id = capacity,
                                        !.arg = error_exp, !.crash = TRUE]
              /\ UNCHANGED <<snap, inserted, removed, preclose>>
       ELSE \E r \in {new_scaling_bloom(capacity, error_exp, nb1, nb2)} :
              /\ sbf' = r.s /\ file' = r.f /\ disk' = r.d
              /\ snap' = r.f /\ inserted' = {} /\ removed' = FALSE
              /\ preclose' = Shape(r.s, r.f)
              /\ ret' = 1 /\ left' = left - 1
              /\ lastop' = [NoOp EXCEPT !.op = "new_scaling_bloom", !.id = capacity,
                                        !.arg = error_exp]
  /\ UNCHANGED <<kind, pool, threads, hist, bloom, binserted, ecb, eadded>>

CreateNext ==
  \/ \E x \in PersistItems :
       sbf.open /\ Add(x, file.hdr.max_id + 1, TRUE, sbf.base)
  \/ \E x \in PersistItems : sbf.open /\ Check(x)
  \/ Free
  \/ \E c \in CapacityChoices, e \in ErrorExpChoices, nb \in Bases :
       NewScalingBloom(c, e, nb, nb)

SpecCreate == ScalingInit(MaxCreateSteps) /\ [][CreateNext]_vars

(***************************************************************************)
(* SpecPool: the thread pool.  One thread calls submit_work for one line   *)
(* after the other, NumWorkers threads run worker_thread, and one thread   *)
(* calls destroy_thread_pool at a moment of its choice.  A step is what a  *)
(* thread does between two points where it can block: a lock, a condition  *)
(* wait, a join.                                                           *)
(***************************************************************************)
NumWorkers == 2
QueueSize == 2
MaxLines == 3

\* the threads: the caller of submit_work, the workers, the caller of
\* destroy_thread_pool
Producer == 0
Workers == 1..NumWorkers
Destroyer == NumWorkers + 1
Threads == 0..(NumWorkers + 1)

\* create_thread_pool: an empty queue, no shutdown, nobody holding the mutex
\* or waiting on a condition
create_thread_pool(num_threads, queue_size) ==
  [created |-> TRUE, num_threads |-> num_threads, queue_size |-> queue_size,
   shutdown |-> 0,
   work_queue |-> [i \in 0..(queue_size - 1) |-> 0],
   queue_front |-> 0, queue_rear |-> 0, queue_count |-> 0,
   results |-> <<>>, result_size |-> queue_size, result_count |-> 0,
   queue_mutex |-> {}, queue_not_empty |-> {}, queue_not_full |-> {}]

PoolInit ==
  /\ kind = "pool"
  /\ NoScaling
  /\ bloom = NoBloom /\ binserted = {} /\ ecb = NoEcb /\ eadded = NoAdds
  /\ pool = create_thread_pool(NumWorkers, QueueSize)
  /\ threads = [pc |-> [t \in Threads |-> IF t \in Workers THEN "w_lock" ELSE "idle"],
                line |-> [t \in Threads |-> 0],
                next |-> 1, joined |-> 0]
  /\ hist = [accepted |-> <<>>, taken |-> <<>>, done |-> {}, refused |-> {},
             atshutdown |-> <<>>]
  /\ lastop = NoOp /\ ret = 0 /\ left = 0

\* what a step of a thread of the pool leaves alone
PoolStep ==
  UNCHANGED <<kind, sbf, file, disk, snap, inserted, removed, preclose, bloom,
              binserted, ecb, eadded, lastop, left>>

\* pthread_mutex_lock / pthread_mutex_unlock on queue_mutex
pthread_mutex_lock(p, t) == [p EXCEPT !.queue_mutex = {t}]
pthread_mutex_unlock(p) == [p EXCEPT !.queue_mutex = {}]

\* pthread_cond_signal wakes one of the waiters, if there is one
WakeChoices(waiters) == IF waiters = {} THEN {{}} ELSE {{w} : w \in waiters}
\* a woken thread has to take the mutex again before pthread_cond_wait returns
AfterWake(l) ==
  IF l = "s_sleep" THEN "s_relock" ELSE IF l = "m_sleep" THEN "m_relock" ELSE "w_relock"
Woken(pcs, ws) ==
  [t \in DOMAIN pcs |-> IF t \in ws THEN AfterWake(pcs[t]) ELSE pcs[t]]

\* the condition of the while loop of submit_work without the wrap of the
\* comparison
submit_must_wait_late(p) == p.queue_count > p.queue_size /\ p.shutdown = 0

\* the condition of the while loop of submit_work
submit_must_wait(p) == p.queue_count = p.queue_size /\ p.shutdown = 0

\* "Add work to queue" in submit_work
enqueue(p, line) ==
  [p EXCEPT !.work_queue[p.queue_rear] = line,
            !.queue_rear = (p.queue_rear + 1) % p.queue_size,
            !.queue_count = @ + 1]

\* the condition of the inner while loop of worker_thread
worker_must_wait(p) == p.queue_count = 0 /\ p.shutdown = 0

\* a worker that leaves as soon as it sees the shutdown flag
worker_must_exit_early(p) == p.shutdown # 0

\* the condition under which worker_thread leaves its loop
worker_must_exit(p) == p.shutdown # 0 /\ p.queue_count = 0

\* "Get work item" without the advance of queue_front
dequeue_stale(p) == [p EXCEPT !.queue_count = @ - 1]

\* "Get work item" in worker_thread, after line = work_queue[queue_front]
dequeue(p) ==
  [p EXCEPT !.queue_front = (p.queue_front + 1) % p.queue_size,
            !.queue_count = @ - 1]

\* ghost: the lines in the queue, oldest first
Pending == SubSeq(hist.accepted, Len(hist.taken) + 1, Len(hist.accepted))

\* submit_work is called with the next line and takes the mutex
SubmitCall ==
  /\ kind = "pool" /\ pool.created
  /\ threads.pc[Producer] = "idle" /\ threads.next <= MaxLines
  /\ pool.queue_mutex = {}
  /\ pool' = pthread_mutex_lock(pool, Producer)
  /\ threads' = [threads EXCEPT !.pc[Producer] = "s_wait",
                                !.line[Producer] = threads.next,
                                !.next = @ + 1]
  /\ UNCHANGED <<hist, ret>> /\ PoolStep

\* submit_work from the head of its while loop, holding the mutex: it waits
\* on queue_not_full, or returns -1, or stores the line and returns 0
SubmitTest ==
  /\ kind = "pool" /\ threads.pc[Producer] = "s_wait"
  /\ IF submit_must_wait(pool)
       THEN /\ pool' = [pthread_mutex_unlock(pool) EXCEPT
                          !.queue_not_full = @ \cup {Producer}]
            /\ threads' = [threads EXCEPT !.pc[Producer] = "s_sleep"]
            /\ UNCHANGED <<hist, ret>>
       ELSE IF pool.shutdown # 0
       THEN /\ pool' = pthread_mutex_unlock(pool)
            /\ threads' = [threads EXCEPT !.pc[Producer] = "idle"]
            /\ hist' = [hist EXCEPT !.refused = @ \cup {threads.line[Producer]}]
            /\ ret' = -1
       ELSE \E ws \in WakeChoices(pool.queue_not_empty) :
            /\ pool' = [pthread_mutex_unlock(enqueue(pool, threads.line[Producer]))
                          EXCEPT !.queue_not_empty = @ \ ws]
            /\ threads' = [threads EXCEPT
                             !.pc = [Woken(threads.pc, ws) EXCEPT ![Producer] = "idle"]]
            /\ hist' = [hist EXCEPT !.accepted = Append(@, threads.line[Producer])]
            /\ ret' = 0
  /\ PoolStep

\* pthread_cond_wait returns once the woken thread holds the mutex again
Relock(t) ==
  /\ kind = "pool" /\ threads.pc[t] \in {"s_relock", "w_relock", "m_relock"}
  /\ pool.queue_mutex = {}
  /\ pool' = pthread_mutex_lock(pool, t)
  /\ threads' = [threads EXCEPT !.pc[t] = IF @ = "s_relock" THEN "s_wait"
                                          ELSE IF @ = "m_relock" THEN "m_wait"
                                          ELSE "w_wait"]
  /\ UNCHANGED <<hist, ret>> /\ PoolStep

\* pthread_cond_wait may wake without a signal
Spurious(t) ==
  /\ kind = "pool" /\ threads.pc[t] \in {"s_sleep", "w_sleep", "m_sleep"}
  /\ pool' = [pool EXCEPT !.queue_not_empty = @ \ {t}, !.queue_not_full = @ \ {t}]
  /\ threads' = [threads EXCEPT !.pc = Woken(threads.pc, {t})]
  /\ UNCHANGED <<hist, ret>> /\ PoolStep

\* worker_thread at the top of its loop takes the mutex
WorkerLock(w) ==
  /\ kind = "pool" /\ threads.pc[w] = "w_lock"
  /\ pool.queue_mutex = {}
  /\ pool' = pthread_mutex_lock(pool, w)
  /\ threads' = [threads EXCEPT !.pc[w] = "w_wait"]
  /\ UNCHANGED <<hist, ret>> /\ PoolStep

\* worker_thread from the head of its inner while loop, holding the mutex: it
\* waits on queue_not_empty, or leaves its loop, or takes the line at
\* queue_front
WorkerTest(w) ==
  /\ kind = "pool" /\ threads.pc[w] = "w_wait"
  /\ IF worker_must_wait(pool)
       THEN /\ pool' = [pthread_mutex_unlock(pool) EXCEPT
                          !.queue_not_empty = @ \cup {w}]
            /\ threads' = [threads EXCEPT !.pc[w] = "w_sleep"]
            /\ hist' = hist
       ELSE IF worker_must_exit(pool)
       THEN /\ pool' = pthread_mutex_unlock(pool)
            /\ threads' = [threads EXCEPT !.pc[w] = "exited"]
            /\ hist' = hist
       ELSE \E ws \in WakeChoices(pool.queue_not_full) :
            /\ pool' = [pthread_mutex_unlock(dequeue(pool)) EXCEPT
                          !.queue_not_full = @ \ ws]
            /\ threads' = [threads EXCEPT
                             !.pc = [Woken(threads.pc, ws) EXCEPT ![w] = "w_process"],
                             !.line[w] = pool.work_queue[pool.queue_front]]
            /\ hist' = [hist EXCEPT
                          !.taken = Append(@, pool.work_queue[pool.queue_front])]
  /\ UNCHANGED ret /\ PoolStep

\* worker_thread below its critical section: the line is looked up in the
\* filter and, unless it is a duplicate that is not to be shown, stored among
\* the results while there is room
WorkerProcess(w, is_duplicate) ==
  /\ kind = "pool" /\ threads.pc[w] = "w_process"
  /\ pool' = IF pool.result_count < pool.result_size /\ ~is_duplicate
               THEN [pool EXCEPT !.results = Append(@, threads.line[w]),
                                 !.result_count = @ + 1]
               ELSE pool
  /\ threads' = [threads EXCEPT !.pc[w] = "w_lock"]
  /\ hist' = [hist EXCEPT !.done = @ \cup {threads.line[w]}]
  /\ UNCHANGED ret /\ PoolStep

\* destroy_thread_pool is called and takes the mutex
DestroyCall ==
  /\ kind = "pool" /\ pool.created
  /\ threads.pc[Destroyer] = "idle"
  /\ pool.queue_mutex = {}
  /\ pool' = pthread_mutex_lock(pool, Destroyer)
  /\ threads' = [threads EXCEPT !.pc[Destroyer] = "d_set"]
  /\ UNCHANGED <<hist, ret>> /\ PoolStep

\* destroy_thread_pool sets shutdown, wakes every waiter of queue_not_empty
\* and releases the mutex
DestroySet ==
  /\ kind = "pool" /\ threads.pc[Destroyer] = "d_set"
  /\ pool' = [pthread_mutex_unlock(pool) EXCEPT !.shutdown = 1, !.queue_not_empty = {}]
  /\ threads' = [threads EXCEPT
                   !.pc = [Woken(threads.pc, pool.queue_not_empty) EXCEPT
                             ![Destroyer] = "d_join"]]
  /\ hist' = [hist EXCEPT !.atshutdown = Pending]
  /\ UNCHANGED ret /\ PoolStep

\* pthread_join of the next worker returns once that worker has left its loop
DestroyJoin ==
  /\ kind = "pool" /\ threads.pc[Destroyer] = "d_join"
  /\ threads.joined < pool.num_threads
  /\ threads.pc[threads.joined + 1] = "exited"
  /\ threads' = [threads EXCEPT !.joined = @ + 1]
  /\ UNCHANGED <<pool, hist, ret>> /\ PoolStep

\* the mutexes, the conditions and the pool are released; a caller does not
\* release a pool another thread is still calling submit_work on
DestroyCleanup ==
  /\ kind = "pool" /\ threads.pc[Destroyer] = "d_join"
  /\ threads.joined = pool.num_threads
  /\ threads.pc[Producer] = "idle"
  /\ pool' = [pool EXCEPT !.created = FALSE]
  /\ threads' = [threads EXCEPT !.pc[Destroyer] = "done"]
  /\ UNCHANGED <<hist, ret>> /\ PoolStep

PoolNext ==
  \/ SubmitCall
  \/ SubmitTest
  \/ \E t \in Threads : Relock(t)
  \/ \E t \in Threads : Spurious(t)
  \/ \E w \in Workers : WorkerLock(w)
  \/ \E w \in Workers : WorkerTest(w)
  \/ \E w \in Workers, d \in BOOLEAN : WorkerProcess(w, d)
  \/ DestroyCall
  \/ DestroySet
  \/ DestroyJoin
  \/ DestroyCleanup

SpecPool == PoolInit /\ [][PoolNext]_vars

(***************************************************************************)
(* SpecParallel: process_file_parallel.  The main thread submits the lines *)
(* of its input, waits for the queue to be empty, prints the results,      *)
(* releases the filter and destroys the pool; the workers are those of     *)
(* SpecPool, with the look-up in the filter and the storing of the result  *)
(* as two steps.  What the filter answers for a line is an input.          *)
(***************************************************************************)
\* set_bloom_filter: the pool borrows the filter of process_file_parallel
set_bloom_filter(p, f) ==
  [x \in DOMAIN p \cup {"bloom_filter"} |-> IF x = "bloom_filter" THEN f ELSE p[x]]

ParallelInit ==
  /\ kind = "pool"
  /\ NoScaling
  /\ bloom = NoBloom /\ binserted = {} /\ ecb = NoEcb /\ eadded = NoAdds
  /\ pool = set_bloom_filter(create_thread_pool(NumWorkers, QueueSize), "live")
  /\ \E sd \in BOOLEAN :
       threads = [pc |-> [t \in Threads |-> IF t \in Workers THEN "w_lock" ELSE "idle"],
                  line |-> [t \in Threads |-> 0],
                  next |-> 1, joined |-> 0,
                  phase |-> "read", show_duplicates |-> sd,
                  is_duplicate |-> [t \in Threads |-> FALSE]]
  /\ hist = [accepted |-> <<>>, taken |-> <<>>, done |-> {}, refused |-> {},
             atshutdown |-> <<>>,
             verdict |-> [l \in 1..MaxLines |-> "none"],
             printed |-> <<>>, crashed |-> FALSE]
  /\ lastop = NoOp /\ ret = 0 /\ left = 0

\* fgets returns NULL: the input has no further line
MainEof ==
  /\ threads.phase = "read" /\ threads.pc[Producer] = "idle"
  /\ threads' = [threads EXCEPT !.phase = "wait"]
  /\ UNCHANGED <<pool, hist, ret>> /\ PoolStep

\* "Wait for processing to complete": the main thread takes the mutex
MainWaitLock ==
  /\ threads.phase = "wait" /\ threads.pc[Producer] = "idle"
  /\ pool.queue_mutex = {}
  /\ pool' = pthread_mutex_lock(pool, Producer)
  /\ threads' = [threads EXCEPT !.pc[Producer] = "m_wait"]
  /\ UNCHANGED <<hist, ret>> /\ PoolStep

\* the main thread at the head of while (queue_count > 0), holding the mutex
MainWaitTest ==
  /\ threads.pc[Producer] = "m_wait"
  /\ IF pool.queue_count > 0
       THEN /\ pool' = [pthread_mutex_unlock(pool) EXCEPT
                          !.queue_not_full = @ \cup {Producer}]
            /\ threads' = [threads EXCEPT !.pc[Producer] = "m_sleep"]
       ELSE /\ pool' = pthread_mutex_unlock(pool)
            /\ threads' = [threads EXCEPT !.pc[Producer] = "idle", !.phase = "print"]
  /\ UNCHANGED <<hist, ret>> /\ PoolStep

\* "Output results": under result_mutex the main thread prints results[0 ..
\* result_count - 1] and releases each of these strings
MainPrint ==
  /\ threads.phase = "print"
  /\ hist' = [hist EXCEPT !.printed = pool.results]
  /\ threads' = [threads EXCEPT !.phase = "free"]
  /\ UNCHANGED <<pool, ret>> /\ PoolStep

\* "Cleanup": bloom_free / free_scaling_bloom on the filter the pool borrowed
MainFree ==
  /\ threads.phase = "free"
  /\ pool' = [pool EXCEPT !.bloom_filter = "released"]
  /\ threads' = [threads EXCEPT !.phase = "destroy"]
  /\ UNCHANGED <<hist, ret>> /\ PoolStep

\* destroy_thread_pool has returned: the input is closed, TRUE is returned
MainReturn ==
  /\ threads.phase = "destroy" /\ threads.pc[Destroyer] = "done"
  /\ threads' = [threads EXCEPT !.phase = "done"]
  /\ UNCHANGED <<pool, hist, ret>> /\ PoolStep

\* what bloom_check_add_64 / scaling_bloom_check_add can do for a worker: on
\* the filter it answers new or duplicate; on a released filter it reads
\* released (for the scaling filter: unmapped) memory, which yields either
\* answer or ends the process with all its threads
CheckOutcomes(p) ==
  IF p.bloom_filter = "live" THEN {"new", "dup"} ELSE {"new", "dup", "crash"}

\* worker_thread, "Process the line": the look-up of the dequeued line
WorkerCheck(w, outcome) ==
  /\ threads.pc[w] = "w_process"
  /\ outcome \in CheckOutcomes(pool)
  /\ IF outcome = "crash"
       THEN /\ hist' = [hist EXCEPT !.crashed = TRUE]
            /\ threads' = [threads EXCEPT !.pc = [t \in Threads |-> "dead"],
                                          !.phase = "dead"]
       ELSE /\ hist' = [hist EXCEPT !.verdict[threads.line[w]] = outcome]
            /\ threads' = [threads EXCEPT !.pc[w] = "w_store",
                                          !.is_duplicate[w] = (outcome = "dup")]
  /\ UNCHANGED <<pool, ret>> /\ PoolStep

\* worker_thread, "Store result": under result_mutex the line is appended if
\* there is room and it is new or duplicates are shown; then the line is freed
WorkerStore(w) ==
  /\ threads.pc[w] = "w_store"
  /\ pool' = IF /\ pool.result_count < pool.result_size
                /\ (~threads.is_duplicate[w] \/ threads.show_duplicates)
               THEN [pool EXCEPT !.results = Append(@, threads.line[w]),
                                 !.result_count = @ + 1]
               ELSE pool
  /\ threads' = [threads EXCEPT !.pc[w] = "w_lock"]
  /\ hist' = [hist EXCEPT !.done = @ \cup {threads.line[w]}]
  /\ UNCHANGED ret /\ PoolStep

\* the steps of process_file_parallel and of its workers
ParallelSteps ==
  \/ threads.phase = "read" /\ SubmitCall
  \/ SubmitTest
  \/ MainEof
  \/ MainWaitLock
  \/ MainWaitTest
  \/ MainPrint
  \/ MainFree
  \/ threads.phase = "destroy" /\ DestroyCall
  \/ DestroySet
  \/ DestroyJoin
  \/ DestroyCleanup
  \/ MainReturn
  \/ \E t \in Threads : Relock(t)
  \/ \E w \in Workers : WorkerLock(w)
  \/ \E w \in Workers : WorkerTest(w)
  \/ \E w \in Workers, o \in {"new", "dup", "crash"} : WorkerCheck(w, o)
  \/ \E w \in Workers : WorkerStore(w)

ParallelNext ==
  \/ ParallelSteps
  \/ \E t \in Threads : Spurious(t)

SpecParallel == ParallelInit /\ [][ParallelNext]_vars

\* Fair scheduling: whenever some thread can take a step, a step is taken.
\* A condition wait that returns without a signal only makes its thread test
\* its loop condition again, so these returns are left out here and every
\* run is finite: weak fairness of the steps is all that is assumed.
SpecParallelFair ==
  ParallelInit /\ [][ParallelSteps]_vars /\ WF_vars(ParallelSteps)

(***************************************************************************)
(* SpecFile: processFile, the single-threaded loop.  Each line read is     *)
(* handed to check-and-add of the filter chosen for the file and printed   *)
(* if the answer is 0.                                                     *)
(***************************************************************************)
MaxInput == 4

\* printf of the line if check-and-add returned 0, ahead of what was printed
emit_front(output, x, rc) == IF rc = 0 THEN <<x>> \o output ELSE output

\* printf("%s", rBuf) if check-and-add returned 0
emit(output, x, rc) == IF rc = 0 THEN Append(output, x) ELSE output

\* processFile in front of its reading loop: new_scaling_bloom for a large
\* file or stdin, bloom_init_64 otherwise; -D may have been given
FileInit ==
  /\ kind \in {"scaling", "basic64"}
  /\ IF kind = "scaling"
       THEN \E r \in {new_scaling_bloom(Capacity, ErrorExp, 1000, 1000)} :
              /\ sbf = r.s /\ file = r.f /\ disk = r.d /\ snap = r.f
              /\ inserted = {} /\ removed = FALSE /\ preclose = Shape(r.s, r.f)
              /\ bloom = NoBloom
       ELSE /\ NoScaling
            /\ bloom = bloom_init_64(Entries, BloomErrorExp)
  /\ binserted = {} /\ ecb = NoEcb /\ eadded = NoAdds /\ pool = NoPool
  /\ \E sd \in BOOLEAN :
       threads = [pc |-> <<>>, line_count |-> 0, show_duplicates |-> sd]
  /\ hist = [accepted |-> <<>>, input |-> <<>>, verdicts |-> <<>>, output |-> <<>>]
  /\ lastop = NoOp /\ ret = 0 /\ left = MaxInput

\* one turn of the loop of the scaling path: fgets returns the line x
ProcessLineScaling(x, nb) ==
  /\ kind = "scaling"
  /\ left > 0 /\ left' = left - 1
  /\ \E r \in {scaling_bloom_check_add(sbf, file, disk, x, threads.line_count + 1,
                                       TRUE, nb)} :
        /\ Moves(r.grew, nb)
        /\ sbf' = r.s /\ file' = r.f /\ disk' = r.d
        /\ ret' = r.rc
        /\ inserted' = IF r.rc = 0 THEN inserted \cup {x} ELSE inserted
        /\ hist' = [hist EXCEPT !.input = Append(@, x),
                                !.verdicts = Append(@, r.rc),
                                !.output = emit(@, x, r.rc)]
  /\ threads' = [threads EXCEPT !.line_count = @ + 1]
  /\ UNCHANGED <<kind, snap, removed, preclose, bloom, binserted, ecb, eadded, pool,
                 lastop>>

\* one turn of the loop of the regular path: fgets returns the line x
ProcessLineRegular(x) ==
  /\ kind = "basic64"
  /\ left > 0 /\ left' = left - 1
  /\ \E r \in {bloom_check_add_64(bloom, x)} :
        /\ bloom' = r.bl
        /\ ret' = r.rc
        /\ binserted' = IF r.rc = 0 THEN binserted \cup {x} ELSE binserted
        /\ hist' = [hist EXCEPT !.input = Append(@, x),
                                !.verdicts = Append(@, r.rc),
                                !.output = emit(@, x, r.rc)]
  /\ threads' = threads
  /\ UNCHANGED <<kind, ecb, eadded, pool, lastop>> /\ UNCHANGED scalingVars

FileNext ==
  \/ \E x \in Items, nb \in Bases : ProcessLineScaling(x, nb)
  \/ \E x \in Items : ProcessLineRegular(x)

SpecFile == FileInit /\ [][FileNext]_vars

(***************************************************************************)
(* SpecGrow: a fresh scaling filter filled with strictly increasing ids.   *)
(***************************************************************************)
GrowSteps == Capacity + 1

GrowNext ==
  \/ \E x \in GrowItems, nb \in Bases : Add(x, file.hdr.max_id + 1, TRUE, nb)
  \/ \E x \in GrowItems, nb \in Bases : CheckAdd(x, file.hdr.max_id + 1, TRUE, nb)

SpecGrow == ScalingInit(GrowSteps) /\ [][GrowNext]_vars

(***************************************************************************)
(* SpecSeq: mutations, lookups and flushes of one scaling filter.          *)
(***************************************************************************)
SeqItems == {ItemA, ItemB}

SeqNext ==
  \/ \E x \in SeqItems, id \in {0, file.hdr.max_id + 1}, ok \in FlushOutcomes,
         nb \in Bases : Add(x, id, ok, nb)
  \/ \E x \in SeqItems, ok \in FlushOutcomes, nb \in Bases :
       CheckAdd(x, file.hdr.max_id + 1, ok, nb)
  \/ \E x \in SeqItems, ok \in FlushOutcomes : Remove(x, 0, ok)
  \/ \E x \in SeqItems : Check(x)
  \/ \E ok1, ok2 \in BOOLEAN : Flush(ok1, ok2)

SpecSeq == ScalingInit(MaxSeqSteps) /\ [][SeqNext]_vars

(***************************************************************************)
(* SpecDurable: scaling_bloom_add in two steps, so that the kernel can     *)
(* write a page back between scaling_bloom_clear_seqnums and the store of  *)
(* the new mem_seqnum.  threads.torn records that the header page was      *)
(* written back at such a moment.                                          *)
(***************************************************************************)
DurableInit ==
  \E r \in {new_scaling_bloom(Capacity, ErrorExp, 1000, 1000)} :
       /\ kind = "scaling"
       /\ sbf = r.s /\ file = r.f /\ disk = r.d
       /\ snap = r.f
       /\ inserted = {} /\ removed = FALSE
       /\ preclose = Shape(r.s, r.f)
       /\ bloom = NoBloom /\ binserted = {} /\ ecb = NoEcb
       /\ eadded = NoAdds /\ pool = NoPool /\ hist = NoHist
       /\ threads = [pc |-> "idle", torn |-> FALSE, item |-> ItemA, id |-> 0,
                     target |-> 1, seqnum |-> 0]
       /\ lastop = NoOp /\ ret = 0 /\ left = MaxDurableSteps

\* scaling_bloom_add up to the return of scaling_bloom_clear_seqnums
AddBegin(x, id, ok) ==
  /\ kind = "scaling" /\ sbf.open /\ threads.pc = "idle" /\ left > 0
  /\ \E c \in {scaling_bloom_clear_seqnums(sbf, file, disk, ok)} :
        /\ file' = c.f /\ disk' = c.d
        /\ threads' = [threads EXCEPT !.pc = "mutating", !.item = x, !.id = id,
                                      !.target = AddTarget(sbf, file, id),
                                      !.seqnum = c.seqnum]
  /\ left' = left - 1
  /\ lastop' = [NoOp EXCEPT !.op = "add_begin", !.item = x, !.id = id, !.f1 = ok]
  /\ UNCHANGED <<kind, sbf, snap, inserted, removed, preclose, bloom, binserted, ecb,
                 eadded, pool, hist, ret>>

\* the kernel writes a page back while scaling_bloom_add is under way
WritebackDuring(p) ==
  /\ kind = "scaling" /\ threads.pc = "mutating" /\ left > 0
  /\ disk' = CopyPage(file, disk, p)
  /\ disk' # disk
  /\ threads' = [threads EXCEPT !.torn = @ \/ p = PageOf(0)]
  /\ left' = left - 1
  /\ lastop' = [NoOp EXCEPT !.op = "writeback", !.id = p]
  /\ UNCHANGED <<kind, sbf, file, snap, inserted, removed, preclose, bloom, binserted,
                 ecb, eadded, pool, hist, ret>>

\* the rest of scaling_bloom_add
AddEnd(nb) ==
  /\ kind = "scaling" /\ threads.pc = "mutating"
  /\ \E r \in {InsertInto(sbf, file, disk, threads.item, threads.id, threads.target,
                           threads.seqnum, nb)} :
        /\ Moves(r.grew, nb)
        /\ sbf' = r.s /\ file' = r.f /\ disk' = r.d
        /\ lastop' = [NoOp EXCEPT !.op = "add", !.item = threads.item,
                                  !.id = threads.id, !.err = r.err, !.grew = r.grew]
  /\ ret' = 1
  /\ inserted' = inserted \cup {threads.item}
  /\ threads' = [threads EXCEPT !.pc = "idle"]
  /\ UNCHANGED <<kind, snap, removed, preclose, bloom, binserted, ecb, eadded, pool,
                 hist, left>>

DurableNext ==
  \/ \E x \in SeqItems, ok \in FlushOutcomes : AddBegin(x, file.hdr.max_id + 1, ok)
  \/ \E p \in 0..PageOf(file.size) : WritebackDuring(p)
  \/ \E nb \in Bases : AddEnd(nb)
  \/ threads.pc = "idle" /\ \E ok1, ok2 \in BOOLEAN : Flush(ok1, ok2)
  \/ threads.pc = "idle" /\ \E p \in 0..PageOf(file.size) : Writeback(p)

SpecDurable == DurableInit /\ [][DurableNext]_vars

(***************************************************************************)
(* SpecRace: the workers of the thread pool inside bloom_check_add_64 on   *)
(* the one filter they share.  No lock is held there, so the reads of the  *)
(* first pass and the load and the store of every |= of the second pass    *)
(* are steps of their own.  threads holds each worker's position and       *)
(* locals, hist what the calls returned.                                   *)
(***************************************************************************)
RaceItems == {ItemB, ItemC}

RaceInit ==
  /\ kind = "race"
  /\ NoScaling
  /\ bloom = bloom_init_64(Entries, BloomErrorExp)
  /\ binserted = {} /\ ecb = NoEcb /\ eadded = NoAdds /\ pool = NoPool
  /\ threads = [pc |-> [w \in Workers |-> "idle"],
                item |-> [w \in Workers |-> ItemB],
                i |-> [w \in Workers |-> 0],
                hits |-> [w \in Workers |-> 0],
                word |-> [w \in Workers |-> {}],
                calls |-> [w \in Workers |-> 0]]
  /\ hist = [accepted |-> <<>>,
             news |-> [x \in RaceItems |-> 0],
             dups |-> [x \in RaceItems |-> 0]]
  /\ lastop = NoOp /\ ret = 0 /\ left = 0

RaceStep ==
  UNCHANGED <<kind, sbf, file, disk, snap, inserted, removed, preclose, ecb, eadded,
              pool, lastop, ret, left>>

\* worker w enters bloom_check_add_64 with the line it dequeued
RaceCall(w, x) ==
  /\ kind = "race" /\ threads.pc[w] = "idle" /\ threads.calls[w] < MaxRaceCalls
  /\ threads' = [threads EXCEPT !.pc[w] = "first", !.item[w] = x, !.i[w] = 0,
                                !.hits[w] = 0, !.calls[w] = @ + 1]
  /\ UNCHANGED <<bloom, binserted, hist>> /\ RaceStep

\* one turn of the first loop; after the last one, return 1 if every bit
\* was found set
RaceTest(w) ==
  /\ kind = "race" /\ threads.pc[w] = "first"
  /\ LET x == threads.item[w]
         h == threads.hits[w] +
                (IF Bit64(bloom.bf64, BloomPos(bloom, x, threads.i[w])) THEN 1 ELSE 0)
         last == threads.i[w] + 1 = bloom.hashes
     IN /\ threads' = [threads EXCEPT
                         !.hits[w] = h,
                         !.i[w] = IF last THEN 0 ELSE @ + 1,
                         !.pc[w] = IF ~last THEN "first"
                                   ELSE IF h = bloom.hashes THEN "idle" ELSE "load"]
        /\ hist' = IF last /\ h = bloom.hashes
                     THEN [hist EXCEPT !.dups[x] = @ + 1] ELSE hist
  /\ UNCHANGED <<bloom, binserted>> /\ RaceStep

\* a turn of the second loop reads the word it is going to change
RaceLoad(w) ==
  /\ kind = "race" /\ threads.pc[w] = "load"
  /\ threads' = [threads EXCEPT
                   !.word[w] = bloom.bf64[BloomPos(bloom, threads.item[w], threads.i[w]) \div 64],
                   !.pc[w] = "store"]
  /\ UNCHANGED <<bloom, binserted, hist>> /\ RaceStep

\* and writes it back with the bit set; after the last turn, return 0
RaceStore(w) ==
  /\ kind = "race" /\ threads.pc[w] = "store"
  /\ LET x == threads.item[w]
         pos == BloomPos(bloom, x, threads.i[w])
         last == threads.i[w] + 1 = bloom.hashes
     IN /\ bloom' = [bloom EXCEPT !.bf64[pos \div 64] = threads.word[w] \cup {pos % 64}]
        /\ threads' = [threads EXCEPT !.i[w] = IF last THEN 0 ELSE @ + 1,
                                      !.pc[w] = IF last THEN "idle" ELSE "load"]
        /\ hist' = IF last THEN [hist EXCEPT !.news[x] = @ + 1] ELSE hist
        /\ binserted' = IF last THEN binserted \cup {x} ELSE binserted
  /\ RaceStep

RaceNext ==
  \/ \E w \in Workers, x \in RaceItems : RaceCall(w, x)
  \/ \E w \in Workers : RaceTest(w)
  \/ \E w \in Workers : RaceLoad(w)
  \/ \E w \in Workers : RaceStore(w)

SpecRace == RaceInit /\ [][RaceNext]_vars

(***************************************************************************)
(* SpecPair: a filter made by bloom_init and one made by bloom_init_64     *)
(* with the same entries and error rate, given the same items: the first   *)
(* through bloom_check_add(add = 1), the second through                    *)
(* bloom_check_add_64.  bloom holds the two of them.                       *)
(***************************************************************************)
\* the two positions of ItemE coincide because its second hash is the
\* number of bits
ItemE == [h1 |-> 3, h2 |-> BloomBits(Entries, BloomErrorExp)]
PairItems == GrowItems \cup {ItemE}

PairInit ==
  /\ kind = "pair"
  /\ NoScaling
  /\ bloom = [single |-> bloom_init(Entries, BloomErrorExp),
              double |-> bloom_init_64(Entries, BloomErrorExp)]
  /\ binserted = {} /\ ecb = NoEcb
  /\ eadded = NoAdds /\ pool = NoPool /\ threads = NoThreads /\ hist = NoHist
  /\ lastop = NoOp /\ ret = 0 /\ left = MaxPairSteps

\* the next item goes to both filters; lastop.arg is what bloom_check_add
\* returned, ret what bloom_check_add_64 returned
PairCheckAdd(x) ==
  /\ kind = "pair"
  /\ \E r1 \in {bloom_check_add(bloom.single, x, 1)},
        r2 \in {bloom_check_add_64(bloom.double, x)} :
        /\ bloom' = [single |-> r1.bl, double |-> r2.bl]
        /\ ret' = r2.rc
        /\ BStep([NoOp EXCEPT !.op = "pair", !.item = x, !.arg = r1.rc])
  /\ binserted' = binserted \cup {x}

PairNext == \E x \in PairItems : PairCheckAdd(x)

SpecPair == PairInit /\ [][PairNext]_vars

(***************************************************************************)
(* SpecHash: the positions that the filters compute for one item, for      *)
(* every pair of hash values.  The scaling filter has two sub-filters, the *)
(* basic filter exists in its byte and its 64-bit form.  hist collects the *)
(* positions computed so far, lastop.id is the next i.                     *)
(***************************************************************************)
HashValues == 0..(HashWrap - 1)

HashInit ==
  /\ kind = "hash"
  /\ \E r \in {new_scaling_bloom(Capacity, ErrorExp, 1000, 1000)} :
       \E g \in {new_counting_bloom_from_scale(r.s, r.f, r.d, 1000)} :
          /\ sbf = g.s /\ file = g.f /\ disk = g.d /\ snap = g.f
          /\ preclose = Shape(g.s, g.f)
  /\ inserted = {} /\ removed = FALSE
  /\ bloom = [single |-> bloom_init(Entries, BloomErrorExp),
              double |-> bloom_init_64(Entries, BloomErrorExp)]
  /\ binserted = {}
  /\ ecb = enhanced_counting_bloom_init(Entries, BloomErrorExp)
  /\ eadded = NoAdds /\ pool = NoPool /\ threads = NoThreads
  /\ hist = [accepted |-> <<>>, bits |-> {}, counters |-> {}, ecounters |-> {}]
  /\ \E h1, h2 \in HashValues :
       lastop = [NoOp EXCEPT !.item = [h1 |-> h1, h2 |-> h2]]
  /\ ret = 0 /\ left = MaxProbes

\* turn i of the loops over the hash functions: x of bloom_check_add and
\* bloom_check_add_64, sub-filter, i and hashes[i] of hash_func, x of
\* enhanced_counting_bloom_add
Probe(i) ==
  /\ kind = "hash" /\ left > 0 /\ i = lastop.id
  /\ LET x == lastop.item
     IN hist' = [hist EXCEPT
          !.bits = IF i < bloom.double.hashes
                     THEN @ \cup {BloomPos(bloom.double, x, i)} ELSE @,
          !.counters = @ \cup {<<b, i, hash_func(sbf.blooms[b], x, i)>> :
                                 b \in {c \in DOMAIN sbf.blooms : i < sbf.blooms[c].nfuncs}},
          !.ecounters = IF i < ecb.hashes THEN @ \cup {EcbPos(ecb, x, i)} ELSE @]
  /\ lastop' = [lastop EXCEPT !.op = "probe", !.id = i + 1]
  /\ left' = left - 1
  /\ UNCHANGED <<kind, sbf, file, disk, snap, inserted, removed, preclose, bloom,
                 binserted, ecb, eadded, pool, threads, ret>>

HashNext == \E i \in 0..(MaxProbes - 1) : Probe(i)

SpecHash == HashInit /\ [][HashNext]_vars

(***************************************************************************)
(* SpecNibble: the functions that write one 4-bit counter, applied to an   *)
(* array of two bytes that starts with any first byte.  hist.array is the  *)
(* array, lastop.id the index or position, lastop.arg the value given to   *)
(* set_counter, ret what the function returned.                            *)
(***************************************************************************)
ByteValues == 0..255
OtherBytes == {0, 165, 255}
NibbleIndices == 0..3
SetValues == {0, 9, 15, 31}

NibbleInit ==
  /\ kind = "nibble"
  /\ NoScaling
  /\ bloom = NoBloom /\ binserted = {} /\ ecb = NoEcb
  /\ eadded = NoAdds /\ pool = NoPool /\ threads = NoThreads
  /\ \E n \in ByteValues, m \in OtherBytes :
       hist = [accepted |-> <<>>, array |-> [a \in 0..1 |-> IF a = 0 THEN n ELSE m]]
  /\ lastop = NoOp /\ ret = 0 /\ left = MaxNibbleSteps

NibbleStep(op) ==
  /\ kind = "nibble" /\ left > 0
  /\ left' = left - 1
  /\ lastop' = op
  /\ UNCHANGED <<kind, sbf, file, disk, snap, inserted, removed, preclose, bloom,
                 binserted, ecb, eadded, pool, threads>>

BitmapIncrement(index) ==
  /\ \E r \in {bitmap_increment(hist.array, index, 0)} :
        hist' = [hist EXCEPT !.array = r.array] /\ ret' = r.rc
  /\ NibbleStep([NoOp EXCEPT !.op = "bitmap_increment", !.id = index])

BitmapDecrement(index) ==
  /\ \E r \in {bitmap_decrement(hist.array, index, 0)} :
        hist' = [hist EXCEPT !.array = r.array] /\ ret' = r.rc
  /\ NibbleStep([NoOp EXCEPT !.op = "bitmap_decrement", !.id = index])

IncrementCounter(pos) ==
  /\ hist' = [hist EXCEPT !.array = increment_counter(hist.array, pos)]
  /\ ret' = 0
  /\ NibbleStep([NoOp EXCEPT !.op = "increment_counter", !.id = pos])

SetCounter(pos, value) ==
  /\ hist' = [hist EXCEPT !.array = set_counter(hist.array, pos, value)]
  /\ ret' = 0
  /\ NibbleStep([NoOp EXCEPT !.op = "set_counter", !.id = pos, !.arg = value])

NibbleNext ==
  \/ \E index \in NibbleIndices : BitmapIncrement(index)
  \/ \E index \in NibbleIndices : BitmapDecrement(index)
  \/ \E pos \in NibbleIndices : IncrementCounter(pos)
  \/ \E pos \in NibbleIndices, value \in SetValues : SetCounter(pos, value)

SpecNibble == NibbleInit /\ [][NibbleNext]_vars

(***************************************************************************)
(* Properties.                                                             *)
(***************************************************************************)
Called == left' # left

\* C1: once a call has inserted x into the basic filter, every later check
\* or check-and-add of x (bloom_check_add, bloom_check_add_64) returns 1, as
\* long as the filter was not reset or freed in between.
C1_NoFalseNegativeBasic ==
  [][(Called /\ lastop'.op \in {"bloom_check_add", "bloom_check_add_64"}
             /\ lastop'.item \in binserted)
       => ret' = 1]_vars

\* a check-and-add that found an item inserted earlier, with another item
\* inserted as well
C1_Witness ==
  /\ kind = "basic64" /\ lastop.op = "bloom_check_add_64" /\ ret = 1
  /\ lastop.item \in binserted /\ Cardinality(binserted) >= 2

\* C2: without removals, every item inserted into the scaling filter is
\* reported present by every later scaling_bloom_check and
\* scaling_bloom_check_add, also after sub-filters were appended and the
\* mapping moved.
C2_NoFalseNegativeScaling ==
  [][(Called /\ lastop'.op \in {"check", "check_add"}
             /\ lastop'.item \in inserted /\ ~removed)
       => ret' = 1]_vars

\* a lookup that finds an item of the first sub-filter after a second one
\* was appended and the mapping moved
C2_Witness ==
  /\ kind = "scaling" /\ lastop.op = "check" /\ ret = 1 /\ ~removed
  /\ lastop.item \in inserted
  /\ sbf.num_blooms = 2 /\ sbf.base # 1000
  /\ counting_bloom_check(file, sbf.blooms[1], lastop.item) = 1
  /\ counting_bloom_check(file, sbf.blooms[2], lastop.item) = 0

\* C3: a check-and-add of x right after a check-and-add of x returns 1
\* (duplicate) and changes nothing: not a bit of the basic filter, not a
\* counter, header field or sequence number of the scaling filter.
C3_CheckAddIdempotent ==
  [][(Called /\ lastop'.op \in {"check_add", "bloom_check_add_64"}
             /\ lastop.op = lastop'.op /\ lastop.item = lastop'.item
             /\ (kind = "basic64" => bloom.live /\ bloom.ready = 1))
       => (ret' = 1 /\ sbf' = sbf /\ file' = file /\ bloom' = bloom)]_vars

\* the second of two check-and-adds of one item on a scaling filter with two
\* sub-filters
C3_Witness ==
  /\ kind = "scaling" /\ lastop.op = "check_add" /\ lastop.rep /\ ret = 1
  /\ sbf.num_blooms = 2

\* C4 (as claimed): capacity + 1 distinct items inserted with strictly
\* increasing ids into a fresh scaling filter, by scaling_bloom_add or by
\* scaling_bloom_check_add, leave exactly 2 sub-filters and are all present.
C4_GrowthClaim ==
  (/\ lastop.op \in {"add", "check_add"} /\ lastop.same
   /\ file.hdr.mem_seqnum = Capacity + 2 /\ Cardinality(inserted) = Capacity + 1)
    => /\ sbf.num_blooms = 2
       /\ \A x \in inserted : scaling_bloom_check(sbf, file, x) = 1

\* C5 (as claimed): while the durable top header has disk_seqnum # 0, the
\* durable sub-filter headers and counters are those of the flush that
\* stored it.
C5_CrashConsistencyClaim ==
  disk.hdr.disk_seqnum # 0 => (disk.cbh = snap.cbh /\ disk.array = snap.array)

\* C6: scaling_bloom_flush flushes; if that fails it returns -1 and changes
\* nothing; if disk_seqnum is already non-zero it changes no header field;
\* otherwise it stores mem_seqnum in disk_seqnum and flushes again.  When it
\* returns 0, disk_seqnum = mem_seqnum.
C6_FlushProtocol ==
  [][(Called /\ lastop'.op = "flush") =>
       /\ ~lastop'.f1 => (ret' = -1 /\ file' = file /\ disk' = disk)
       /\ (lastop'.f1 /\ file.hdr.disk_seqnum # 0)
            => (ret' = 0 /\ file' = file /\ disk' = file)
       /\ (lastop'.f1 /\ file.hdr.disk_seqnum = 0)
            => /\ file' = [file EXCEPT !.hdr.disk_seqnum = file.hdr.mem_seqnum]
               /\ ret' = (IF lastop'.f2 THEN 0 ELSE -1)
               /\ disk' = (IF lastop'.f2 THEN file' ELSE file)
       /\ ret' = 0 => file'.hdr.disk_seqnum = file'.hdr.mem_seqnum]_vars

\* a flush that marked a filter holding items clean
C6_Witness ==
  /\ lastop.op = "flush" /\ ret = 0 /\ inserted # {}
  /\ file.hdr.disk_seqnum = file.hdr.mem_seqnum /\ file.hdr.mem_seqnum > 1
  /\ disk = file

\* C7: new_scaling_bloom_from_file on the file of a closed filter, with the
\* same capacity and error rate, succeeds; the filter has the sub-filter
\* count, max_id and per-sub-filter id and count it had at the close, and
\* (no removals) reports every inserted item present.
C7_PersistenceRoundTrip ==
  lastop.op = "from_file" =>
    /\ ret = 1 /\ sbf.open
    /\ Shape(sbf, file) = preclose
    /\ ~removed => \A x \in inserted : scaling_bloom_check(sbf, file, x) = 1

\* a filter with two sub-filters, flushed clean, closed and reopened
C7_Witness ==
  /\ lastop.op = "from_file" /\ ret = 1 /\ sbf.num_blooms = 2 /\ ~removed
  /\ Cardinality(inserted) = 2 /\ file.hdr.disk_seqnum # 0

\* C8 (as claimed): an add or remove in which a counter overflowed or
\* underflowed reports that to its caller: it does not return what a clean
\* add (1), a clean remove (1) or a remove that found no sub-filter (0) returns.
C8_OverflowReportedClaim ==
  (lastop.op \in {"add", "remove"} /\ lastop.err) => ret \notin {0, 1}

\* C9 (as claimed): a remove of an item one of whose counters is 0 leaves
\* every counter and every sub-filter header (id, count) as it was.
C9_BadRemoveClaim ==
  [][(Called /\ lastop'.op = "remove" /\ lastop'.err)
       => (file'.array = file.array /\ file'.cbh = file.cbh)]_vars

\* the 4-bit counters of the sub-filters and of the enhanced counting filter
Ctr(f, b, j) ==
  LET n == f.array[j \div 2 + b.offset]
  IN IF j % 2 # 0 THEN n % 16 ELSE n \div 16
Ctrs(s) == UNION {{<<i, j>> : j \in 0..(s.blooms[i].size - 1)} : i \in DOMAIN s.blooms}

\* C10: every 4-bit counter stays in 0..15; a counter at 15 is still 15
\* after any add, a counter at 0 is still 0 after any remove.
C10_CountersSaturate ==
  [][Called =>
       /\ \A c \in Ctrs(sbf) :
            /\ Ctr(file', sbf.blooms[c[1]], c[2]) \in 0..15
            /\ (lastop'.op = "add" /\ Ctr(file, sbf.blooms[c[1]], c[2]) = 15)
                 => Ctr(file', sbf.blooms[c[1]], c[2]) = 15
            /\ (lastop'.op = "remove" /\ Ctr(file, sbf.blooms[c[1]], c[2]) = 0)
                 => Ctr(file', sbf.blooms[c[1]], c[2]) = 0
       /\ \A a \in DOMAIN ecb.counts : ecb'.counts[a] \in 0..255
       /\ \A q \in 0..(ecb.counters - 1) :
            get_counter(ecb.counts, q) = 15 => get_counter(ecb'.counts, q) = 15]_vars

\* an add that ran into a counter at 15
C10_Witness ==
  /\ lastop.op = "add" /\ lastop.err
  /\ \E c \in Ctrs(sbf) : Ctr(file, sbf.blooms[c[1]], c[2]) = 15

\* C11: a scaling_bloom_remove of x right after a scaling_bloom_add of x into
\* the same sub-filter, none of x's counters having been at 15, leaves every
\* counter and every sub-filter header (id, count) as before the add; if the
\* filter was empty, x is absent again.
C11_AddRemoveRoundTrip ==
  [][(Called /\ lastop'.op = "remove" /\ lastop'.undo) =>
       /\ file'.array = lastop.pre.array
       /\ file'.cbh = lastop.pre.cbh
       /\ (\A a \in DOMAIN lastop.pre.array : lastop.pre.array[a] = 0)
            => scaling_bloom_check(sbf', file', lastop'.item) = 0]_vars

\* an add undone by a remove in a filter that holds other items
C11_Witness ==
  /\ lastop.op = "remove" /\ lastop.undo /\ ret = 1 /\ ~lastop.err
  /\ \E a \in DOMAIN file.array : file.array[a] # 0
  /\ scaling_bloom_check(sbf, file, lastop.item) = 0

\* the counters the enhanced counting filter addresses for x, and how many of
\* x's hash functions address counter q
EcbCounters(e, x) == {EcbPos(e, x, i) : i \in 0..(e.hashes - 1)}
EcbTimes(e, x, q) == Cardinality({i \in 0..(e.hashes - 1) : EcbPos(e, x, i) = q})
Least(S) == CHOOSE v \in S : \A w \in S : v <= w
\* the counters of sub-filter b that belong to x
CbCounters(b, x) == {hash_func(b, x, i) + i * b.counts_per_func : i \in 0..(b.nfuncs - 1)}

\* C12 (as claimed): an add to a counting filter, enhanced_counting_bloom_add
\* or counting_bloom_add, reports the item as new (0) exactly when one of the
\* item's counters was 0 before the call.
C12_AddReportsNewClaim ==
  [][Called =>
       /\ lastop'.op = "ecb_add" =>
            (ret' = 0 <=> \E q \in EcbCounters(ecb, lastop'.item) :
                             get_counter(ecb.counts, q) = 0)
       /\ lastop'.op = "add" =>
            (lastop'.crc = 0 <=> \E j \in CbCounters(sbf.blooms[1], lastop'.item) :
                                    Ctr(file, sbf.blooms[1], j) = 0)]_vars

\* C12 (amended): enhanced_counting_bloom_add increments the item's counters
\* (to at most 15) and returns 0 exactly when one of them was 0 before the
\* call, 1 otherwise; counting_bloom_add increments the item's counters that
\* are below 15 and returns 0 in every case.
C12_AddReportsNew ==
  [][Called =>
       /\ lastop'.op = "ecb_add" =>
            /\ ret' \in {0, 1}
            /\ ret' = 0 <=> \E q \in EcbCounters(ecb, lastop'.item) :
                              get_counter(ecb.counts, q) = 0
            /\ \A q \in 0..(ecb.counters - 1) :
                 LET v == get_counter(ecb.counts, q) + EcbTimes(ecb, lastop'.item, q)
                 IN get_counter(ecb'.counts, q) = IF v > 15 THEN 15 ELSE v
       /\ lastop'.op = "add" =>
            /\ lastop'.crc = 0
            /\ \A j \in 0..(sbf.blooms[1].size - 1) :
                 LET v == Ctr(file, sbf.blooms[1], j)
                 IN Ctr(file', sbf.blooms[1], j) =
                      IF j \in CbCounters(sbf.blooms[1], lastop'.item) /\ v < 15
                        THEN v + 1 ELSE v]_vars

\* an add of an item added before, reported as already there
C12_Witness ==
  /\ lastop.op = "ecb_add" /\ ret = 1 /\ eadded[lastop.item] >= 2

\* C13: enhanced_counting_bloom_get_count returns the least of the item's
\* counters and changes nothing; after n adds of the item it is at least
\* min(n, 15) and at most 15, as is what enhanced_counting_bloom_check_add_count
\* returns, and enhanced_counting_bloom_check returns 1 when n >= 1.
C13_FrequencyEstimate ==
  [][Called =>
       LET x == lastop'.item
           n == eadded[x]
           m == Least({get_counter(ecb.counts, q) : q \in EcbCounters(ecb, x)})
       IN /\ lastop'.op \in {"ecb_get_count", "ecb_check_add_count"} =>
               /\ ret' = m
               /\ ret' >= (IF n > 15 THEN 15 ELSE n) /\ ret' <= 15
          /\ lastop'.op \in {"ecb_get_count", "ecb_check"} => ecb' = ecb
          /\ (lastop'.op = "ecb_check" /\ n >= 1) => ret' = 1]_vars

\* an estimate of 15 for an item added more than 15 times, its counters
\* shared with no other call
C13_Witness ==
  /\ lastop.op = "ecb_get_count" /\ ret = 15
  /\ lastop.item = ItemC /\ eadded[ItemC] > 15

\* C14: scaling_bloom_check returns 1 if and only if counting_bloom_check
\* returns 1 for at least one sub-filter, and changes no counter, header
\* field or sequence number, in memory or on disk.
C14_LookupIsUnion ==
  [][(Called /\ lastop'.op = "check") =>
       /\ ret' = 1 <=> \E i \in 1..sbf.num_blooms :
                          counting_bloom_check(file, sbf.blooms[i], lastop'.item) = 1
       /\ ret' \in {0, 1}
       /\ sbf' = sbf /\ file' = file /\ disk' = disk]_vars

\* a lookup answered by the older of two sub-filters alone
C14_Witness ==
  /\ lastop.op = "check" /\ ret = 1 /\ sbf.num_blooms = 2
  /\ counting_bloom_check(file, sbf.blooms[2], lastop.item) = 0

\* the size of a file of m sub-filters made for (Capacity, ErrorExp)
RECURSIVE StoreSize(_)
StoreSize(m) ==
  IF m = 0 THEN TopHeaderSize
  ELSE StoreSize(m - 1) + counting_bloom_init(Capacity, ErrorExp, m - 1, 0).num_bytes
ValidSizes == {StoreSize(m) : m \in 0..(MaxFile \div CBHeaderSize)}

\* C15: new_scaling_bloom_from_file succeeds if and only if the size of the
\* file is the top header plus a whole number of sub-filters for (capacity,
\* error rate); the filter it returns maps exactly the file, and on failure
\* there is no filter.
C15_OpenRejectsCorrupt ==
  [][(Called /\ lastop'.op = "from_file") =>
       /\ ret' = 1 <=> file.size \in ValidSizes
       /\ ret' = 1 => (sbf'.open /\ file'.size = file.size /\ sbf'.num_bytes = file.size
                       /\ StoreSize(sbf'.num_blooms) = file.size)
       /\ ret' # 1 => ~sbf'.open]_vars

\* an open refused for a file of two sub-filters that lost some of its bytes
C15_Witness ==
  /\ lastop.op = "from_file" /\ ret = 0 /\ ~sbf.open
  /\ preclose.num_blooms = 2 /\ inserted # {}

\* C16 (as claimed): new_scaling_bloom called with a capacity outside
\* [MinCapacity, MaxCapacity] or an error rate outside (0, 1) returns the
\* failure value to its caller and leaves no open filter.
C16_ConstructionErrorsClaim ==
  (/\ lastop.op = "new_scaling_bloom"
   /\ \/ lastop.id < MinCapacity \/ lastop.id > MaxCapacity
      \/ lastop.arg <= 0)
    => (~lastop.crash /\ ret = 0 /\ ~sbf.open)

\* C17 (as claimed): a check, add or check-and-add called on a filter that
\* bloom_free released is rejected (-1) and the filter stays not ready.
C17_FreeUnusableClaim ==
  (lastop.op \in {"bloom_check_add", "bloom_check_add_64"} /\ ~bloom.live)
    => (ret = -1 /\ bloom.ready = 0)

\* the elements of a sequence
Range(q) == {q[k] : k \in DOMAIN q}

\* C18: queue_count stays within 0..queue_size and is the number of lines
\* accepted and not yet dequeued; these lines lie in the slots from
\* queue_front up to queue_rear, oldest first, so none of them was
\* overwritten; and submit_work stores a line only when queue_count is below
\* queue_size, and waits on queue_not_full when it is not (and there is no
\* shutdown).
C18_BoundedQueue ==
  /\ [](kind = "pool" =>
          /\ pool.queue_count \in 0..pool.queue_size
          /\ pool.queue_count = Len(hist.accepted) - Len(hist.taken)
          /\ pool.queue_rear = (pool.queue_front + pool.queue_count) % pool.queue_size
          /\ \A k \in 1..pool.queue_count :
               pool.work_queue[(pool.queue_front + k - 1) % pool.queue_size] = Pending[k])
  /\ [][/\ hist'.accepted # hist.accepted => pool.queue_count < pool.queue_size
        /\ (/\ threads.pc[Producer] = "s_wait" /\ threads'.pc[Producer] # "s_wait"
            /\ pool.queue_count = pool.queue_size /\ pool.shutdown = 0)
             => (threads'.pc[Producer] = "s_sleep" /\ Producer \in pool'.queue_not_full
                 /\ pool'.work_queue = pool.work_queue)]_vars

\* submit_work waits on queue_not_full with every slot of the queue taken
C18_Witness ==
  /\ kind = "pool" /\ threads.pc[Producer] = "s_sleep"
  /\ pool.queue_count = pool.queue_size /\ Producer \in pool.queue_not_full

\* C19: the lines dequeued so far are, in order, the first of the lines
\* submit_work accepted, so no line is dequeued twice or out of turn; a
\* dequeue hands the oldest queued line to one worker and to no other; and
\* once every worker has left its loop every accepted line has been dequeued.
C19_NoLossNoDuplication ==
  /\ [](kind = "pool" =>
          /\ Len(hist.taken) <= Len(hist.accepted)
          /\ \A k \in 1..Len(hist.taken) : hist.taken[k] = hist.accepted[k]
          /\ (\A w \in Workers : threads.pc[w] = "exited") => hist.taken = hist.accepted)
  /\ [][hist'.taken # hist.taken =>
          \E w \in Workers :
             /\ threads.pc[w] = "w_wait" /\ threads'.pc[w] = "w_process"
             /\ threads'.line[w] = hist.accepted[Len(hist.taken) + 1]
             /\ hist'.taken = Append(hist.taken, threads'.line[w])
             /\ \A v \in Workers \ {w} :
                  /\ threads'.line[v] = threads.line[v]
                  /\ threads'.pc[v] = "w_process" => threads.pc[v] = "w_process"]_vars

\* two workers hold a line each, and not the same one
C19_Witness ==
  /\ kind = "pool" /\ Len(hist.taken) >= 2
  /\ \E v, w \in Workers :
       /\ v # w /\ threads.pc[v] = "w_process" /\ threads.pc[w] = "w_process"
       /\ threads.line[v] # threads.line[w]

AllExited == \A w \in Workers : threads.pc[w] = "exited"

\* C20: a worker leaves its loop only while it holds queue_mutex and sees
\* shutdown set and queue_count = 0; once every worker has left, the queue is
\* empty and every line that was queued when shutdown was set, and every
\* other accepted line, has been processed; and a submit_work that finds
\* shutdown set returns -1 and leaves the queue as it was.
C20_ShutdownDrains ==
  /\ []((kind = "pool" /\ AllExited) =>
          /\ pool.queue_count = 0
          /\ Range(hist.atshutdown) \subseteq hist.done
          /\ Range(hist.accepted) = hist.done)
  /\ [][/\ \A w \in Workers :
             (threads'.pc[w] = "exited" /\ threads.pc[w] # "exited")
               => (pool.shutdown # 0 /\ pool.queue_count = 0 /\ pool.queue_mutex = {w})
        /\ (/\ threads.pc[Producer] = "s_wait" /\ threads'.pc[Producer] = "idle"
            /\ pool.shutdown # 0)
             => /\ ret' = -1 /\ hist'.accepted = hist.accepted
                /\ pool'.work_queue = pool.work_queue
                /\ pool'.queue_count = pool.queue_count
                /\ pool'.queue_rear = pool.queue_rear
        /\ hist'.refused # hist.refused => pool.shutdown # 0]_vars

\* every worker has left, lines were queued when shutdown was set, and a
\* later submit_work was turned away
C20_Witness ==
  /\ kind = "pool" /\ AllExited
  /\ Len(hist.atshutdown) > 0 /\ hist.refused # {}

\* C21 (as claimed): under fair scheduling process_file_parallel comes to its
\* end: the submissions and the wait for the empty queue end, every worker
\* leaves its loop and every pthread_join returns.
C21_TerminationClaim == <>(threads.phase = "done" /\ AllExited)

\* how often a line stands in a sequence
Occurrences(q, l) == Cardinality({k \in DOMAIN q : q[k] = l})

\* C22 (as claimed): every line a worker has finished with, and whose
\* look-up answered new (or any such line when duplicates are shown), stands
\* exactly once in the results buffer.
C22_ResultsCompleteClaim ==
  \A l \in hist.done :
     (hist.verdict[l] = "new" \/ threads.show_duplicates)
       => Occurrences(pool.results, l) = 1

\* the lines of an input whose check-and-add answered v, in input order
RECURSIVE Answered(_, _, _)
Answered(input, verdicts, v) ==
  IF input = <<>> THEN <<>>
  ELSE LET n == Len(input)
           rest == Answered(SubSeq(input, 1, n - 1), SubSeq(verdicts, 1, n - 1), v)
       IN IF verdicts[n] = v THEN Append(rest, input[n]) ELSE rest

\* C23: what processFile has printed is the lines whose check-and-add
\* answered new (0), in input order; a line answered new has not occurred
\* before in the input; and the input alpha, beta, alpha gets the answers
\* new, new, duplicate and the output alpha, beta.
C23_InputOrderPreserved ==
  /\ hist.output = Answered(hist.input, hist.verdicts, 0)
  /\ \A k \in DOMAIN hist.input :
       hist.verdicts[k] = 0 => \A j \in 1..(k - 1) : hist.input[j] # hist.input[k]
  /\ hist.input = <<ItemA, ItemC, ItemA>>
       => (hist.verdicts = <<0, 0, 1>> /\ hist.output = <<ItemA, ItemC>>)

\* the input alpha, beta, alpha has been read
C23_Witness ==
  /\ hist.input = <<ItemA, ItemC, ItemA>> /\ hist.output = <<ItemA, ItemC>>

\* C24 (as claimed): with -D given, what has been printed is the lines whose
\* check-and-add answered duplicate (1), and no line answered new.
C24_ShowDuplicatesClaim ==
  threads.show_duplicates => hist.output = Answered(hist.input, hist.verdicts, 1)

\* the bit numbers that are 1 in a buffer of 64-bit words
Bits64(buf) == UNION {{q * 64 + b : b \in buf[q]} : q \in DOMAIN buf}
\* the positions bloom_check_add_64 probes for an item
Probed(bl, x) == {BloomPos(bl, x, i) : i \in 0..(bl.hashes - 1)}

\* C25: a bloom_check_add_64 on a filter in use returns 1 exactly when every
\* probed position was set, and then leaves the buffer as it was; otherwise it
\* returns 0 and the bits set afterwards are those set before together with
\* the probed positions.
C25_TwoPassCheckAdd ==
  [][(Called /\ lastop'.op = "bloom_check_add_64" /\ bloom.live) =>
       /\ ret' \in {0, 1}
       /\ ret' = 1 <=> Probed(bloom, lastop'.item) \subseteq Bits64(bloom.bf64)
       /\ ret' = 1 => bloom' = bloom
       /\ ret' = 0 => /\ Bits64(bloom'.bf64) =
                           Bits64(bloom.bf64) \cup Probed(bloom, lastop'.item)
                      /\ [bloom' EXCEPT !.bf64 = bloom.bf64] = bloom]_vars

\* an item was added that found one of its two positions set by another item
C25_Witness ==
  /\ kind = "basic64" /\ bloom.live
  /\ lastop.op = "bloom_check_add_64" /\ lastop.item = ItemB /\ ret = 0
  /\ ItemA \in binserted
  /\ Cardinality(Bits64(bloom.bf64)) = 2

\* C26: a scaling_bloom_check_add that returns 0 leaves the filter, its
\* headers and counters exactly as scaling_bloom_add would have left them
\* from the same state with the same item and id.
C26_CheckAddInsertsLikeAdd ==
  [][(Called /\ lastop'.op = "check_add" /\ ret' = 0) =>
       \E a \in {scaling_bloom_add(sbf, file, disk, lastop'.item, lastop'.id,
                                   lastop'.f1, sbf'.base)} :
          /\ sbf' = a.s
          /\ file' = a.f
          /\ lastop'.grew = a.grew]_vars

\* the counter bytes of a sub-filter, as indices of the mapping
Region(b) == b.offset..(b.offset + (b.num_bytes - CBHeaderSize) - 1)
\* the value of 4-bit counter index of a sub-filter; bytes past the end of
\* the file read as zero once the file is grown
Nibble(arr, index, offset) ==
  LET access == index \div 2 + offset
  IN IF access \notin DOMAIN arr THEN 0
     ELSE IF index % 2 # 0 THEN arr[access] % 16 ELSE arr[access] \div 16
\* the counters of item x in sub-filter b
CounterIdx(b, x) == {hash_func(b, x, i) + i * b.counts_per_func : i \in 0..(b.nfuncs - 1)}
\* the newest sub-filter whose header id is <= id
Newest(s, f, id) ==
  CHOOSE i \in Matching(s, f, id) : \A j \in Matching(s, f, id) : j <= i
\* every sub-filter but u has the header it had
OthersKept(u) ==
  \A i \in DOMAIN sbf.blooms \ {u} :
     /\ CBH(sbf', file', sbf'.blooms[i]) = CBH(sbf, file, sbf.blooms[i])
     /\ sbf'.blooms[i].offset = sbf.blooms[i].offset
\* every counter byte outside sub-filter u is as it was
OutsideKept(u) ==
  \A a \in DOMAIN file.array \ Region(sbf'.blooms[u]) : file'.array[a] = file.array[a]

\* C27: scaling_bloom_add inserts into, and scaling_bloom_remove decrements
\* in, the newest sub-filter whose header id is <= id, and remove returns 0
\* without touching anything when there is none (the first sub-filter of a
\* filter made by new_scaling_bloom has id 0, so there always is one).  add appends one sub-filter,
\* with count 0 and id = former max_id + 1, exactly when id > max_id and the
\* routed sub-filter's count is >= capacity - 1, and the new sub-filter then
\* takes the item; in every other case the number of sub-filters stays.
C27_RoutingAndGrowth ==
  [][/\ (Called /\ lastop'.op = "add" /\ Matching(sbf, file, lastop'.id) # {}) =>
          LET t == Newest(sbf, file, lastop'.id)
              old == CBH(sbf, file, sbf.blooms[t])
              grow == lastop'.id > file.hdr.max_id /\ old.count >= sbf.capacity - 1
              u == IF grow THEN sbf.num_blooms + 1 ELSE t
              b == sbf'.blooms[u]
          IN /\ ret' = 1
             /\ lastop'.grew = grow
             /\ sbf'.num_blooms = sbf.num_blooms + (IF grow THEN 1 ELSE 0)
             /\ Len(sbf'.blooms) = sbf'.num_blooms
             /\ CBH(sbf', file', b) =
                  IF grow THEN [id |-> file.hdr.max_id + 1, count |-> 1]
                          ELSE [old EXCEPT !.count = (old.count + 1) % CountWrap]
             /\ OthersKept(u)
             /\ OutsideKept(u)
             /\ \A c \in CounterIdx(b, lastop'.item) :
                  Nibble(file'.array, c, b.offset) =
                    IF Nibble(file.array, c, b.offset) = 15 THEN 15
                    ELSE Nibble(file.array, c, b.offset) + 1
     /\ (Called /\ lastop'.op = "remove") =>
          IF Matching(sbf, file, lastop'.id) = {}
            THEN ret' = 0 /\ sbf' = sbf /\ file' = file
            ELSE LET t == Newest(sbf, file, lastop'.id)
                     old == CBH(sbf, file, sbf.blooms[t])
                     b == sbf.blooms[t]
                 IN /\ ret' = 1
                    /\ sbf' = sbf
                    /\ CBH(sbf', file', b) =
                         [old EXCEPT !.count = (old.count - 1 + CountWrap) % CountWrap]
                    /\ OthersKept(t)
                    /\ OutsideKept(t)
                    /\ file'.hdr.max_id = file.hdr.max_id
                    /\ \A c \in CounterIdx(b, lastop'.item) :
                         Nibble(file'.array, c, b.offset) =
                           IF Nibble(file.array, c, b.offset) = 0 THEN 0
                           ELSE Nibble(file.array, c, b.offset) - 1]_vars

\* with two sub-filters, an add whose id is below the newer one's went into
\* the older one
C27_Witness ==
  /\ kind = "scaling" /\ sbf.open /\ sbf.num_blooms = 2
  /\ lastop.op = "add" /\ ~lastop.grew
  /\ lastop.id < CBH(sbf, file, sbf.blooms[2]).id
  /\ CBH(sbf, file, sbf.blooms[1]).count = Capacity

\* the header ids of the sub-filters, in creation order
HeaderIds(s, f) == [i \in DOMAIN s.blooms |-> CBH(s, f, s.blooms[i]).id]
\* a call that inserted: every add, and a check-and-add that returned 0
Inserted ==
  Called /\ (lastop'.op = "add" \/ (lastop'.op = "check_add" /\ ret' = 0))

\* C28: while a scaling filter is open its sub-filters' header ids are
\* strictly ascending in creation order and the first is 0; max_id starts at
\* 0, a call that inserts with id leaves it at the larger of its former value
\* and id, and no other step on the open filter changes it.
C28_SubFiltersOrdered ==
  /\ [](kind = "scaling" /\ sbf.open =>
          /\ sbf.num_blooms >= 1
          /\ HeaderIds(sbf, file)[1] = 0
          /\ \A i, j \in DOMAIN sbf.blooms :
                i < j => HeaderIds(sbf, file)[i] < HeaderIds(sbf, file)[j]
          /\ HeaderIds(sbf, file)[sbf.num_blooms] <= file.hdr.max_id)
  /\ (kind = "scaling" => file.hdr.max_id = 0)
  /\ [][kind = "scaling" =>
          /\ file'.hdr.max_id >= file.hdr.max_id
          /\ Inserted =>
               file'.hdr.max_id = IF lastop'.id > file.hdr.max_id
                                    THEN lastop'.id ELSE file.hdr.max_id
          /\ ~Inserted => file'.hdr.max_id = file.hdr.max_id]_vars

\* ids 0, 1, 2, 3 were added: the second sub-filter was made for id 2
C28_Witness ==
  /\ kind = "scaling" /\ sbf.open /\ sbf.num_blooms = 2
  /\ lastop.op = "add" /\ lastop.id = 3
  /\ HeaderIds(sbf, file) = <<0, 2>>
  /\ file.hdr.max_id = 3

\* C29 (as claimed): with strictly increasing ids and no removal, by
\* scaling_bloom_add or scaling_bloom_check_add, no sub-filter's count
\* exceeds capacity - 1, and a step appends a sub-filter only when the newest
\* one held capacity - 1 records before it.
C29_FillBoundClaim ==
  /\ [](sbf.open =>
          \A i \in DOMAIN sbf.blooms :
             CBH(sbf, file, sbf.blooms[i]).count <= sbf.capacity - 1)
  /\ [][(sbf.open /\ sbf'.open /\ sbf'.num_blooms > sbf.num_blooms) =>
          CBH(sbf, file, sbf.blooms[sbf.num_blooms]).count = sbf.capacity - 1]_vars

\* the sum of num_bytes over the first n sub-filters
RECURSIVE SumNumBytes(_, _)
SumNumBytes(blooms, n) ==
  IF n = 0 THEN 0 ELSE blooms[n].num_bytes + SumNumBytes(blooms, n - 1)

\* C30: while a scaling filter is open, its num_bytes is the size of the top
\* header plus the num_bytes of every sub-filter, each of which is a header
\* plus ceil(size / 2) counter bytes laid out back to back, and the mapped
\* length and the length of the backing file are at least num_bytes.
C30_StoreSize ==
  (kind = "scaling" /\ sbf.open) =>
     /\ Len(sbf.blooms) = sbf.num_blooms
     /\ sbf.num_bytes = TopHeaderSize + SumNumBytes(sbf.blooms, sbf.num_blooms)
     /\ \A i \in DOMAIN sbf.blooms :
          /\ sbf.blooms[i].num_bytes = CBHeaderSize + CeilDiv(sbf.blooms[i].size, 2)
          /\ sbf.blooms[i].offset =
               TopHeaderSize + SumNumBytes(sbf.blooms, i - 1) + CBHeaderSize
     /\ sbf.bytes >= sbf.num_bytes
     /\ file.size >= sbf.num_bytes
     /\ disk.size >= sbf.num_bytes

\* a second sub-filter was appended and the mapping moved
C30_Witness ==
  /\ kind = "scaling" /\ sbf.open /\ sbf.num_blooms = 2
  /\ lastop.op = "add" /\ lastop.grew
  /\ sbf.base # 1000
  /\ sbf.num_bytes > TopHeaderSize + sbf.blooms[1].num_bytes

\* C31: while a scaling filter is open, its top-header pointer is the base of
\* the current mapping and every sub-filter's header pointer is that base
\* plus the sub-filter's own offset, so each header that a call dereferences
\* lies in the current mapping; this holds after growth whether the mapping
\* moved or not.
C31_NoStalePointers ==
  (kind = "scaling" /\ sbf.open) =>
     /\ sbf.header = sbf.base
     /\ \A i \in DOMAIN sbf.blooms :
          /\ sbf.blooms[i].header = sbf.base + (sbf.blooms[i].offset - CBHeaderSize)
          /\ HdrOff(sbf, sbf.blooms[i]) \in DOMAIN file.cbh
          /\ HdrOff(sbf, sbf.blooms[i]) + CBHeaderSize <= sbf.bytes

\* a check-and-add appended a sub-filter and the mapping moved
C31_Witness ==
  /\ kind = "scaling" /\ sbf.open /\ sbf.num_blooms >= 2
  /\ lastop.op = "check_add" /\ lastop.grew
  /\ sbf.base # 1000

\* the bytes of a sub-filter: its header followed by its counters
FullRegion(b) == (b.offset - CBHeaderSize)..(b.offset + CeilDiv(b.size, 2) - 1)
\* the bytes counting_bloom_add and counting_bloom_remove touch for item x
Accessed(b, x) ==
  {(hash_func(b, x, i) + i * b.counts_per_func) \div 2 + b.offset :
     i \in 0..(b.nfuncs - 1)}

\* C32: while a scaling filter is open the byte regions of its sub-filters
\* are pairwise disjoint, start after the top header and end inside the
\* mapping and the file, and every counter byte a sub-filter touches for an
\* item lies among its own counter bytes; a scaling_bloom_add,
\* scaling_bloom_remove or scaling_bloom_check_add changes counters and
\* header of one sub-filter at most.
C32_RegionsIsolated ==
  /\ []((kind = "scaling" /\ sbf.open) =>
          /\ \A i, j \in DOMAIN sbf.blooms :
                i # j => FullRegion(sbf.blooms[i]) \cap FullRegion(sbf.blooms[j]) = {}
          /\ \A i \in DOMAIN sbf.blooms :
                /\ \A a \in FullRegion(sbf.blooms[i]) :
                      a >= TopHeaderSize /\ a < sbf.bytes /\ a < file.size
                /\ \A x \in GrowItems :
                      /\ Accessed(sbf.blooms[i], x) \subseteq Region(sbf.blooms[i])
                      /\ Region(sbf.blooms[i]) \subseteq FullRegion(sbf.blooms[i])
                      /\ Accessed(sbf.blooms[i], x) \subseteq DOMAIN file.array)
  /\ [][(Called /\ lastop'.op \in {"add", "remove", "check_add"}) =>
          \E u \in DOMAIN sbf'.blooms : OthersKept(u) /\ OutsideKept(u)]_vars

\* with counters in two sub-filters, a remove was routed to the older one
C32_Witness ==
  /\ kind = "scaling" /\ sbf.open /\ sbf.num_blooms = 2
  /\ lastop.op = "remove" /\ ret = 1
  /\ lastop.id < HeaderIds(sbf, file)[2]
  /\ CBH(sbf, file, sbf.blooms[2]).count = 1
  /\ CBH(sbf, file, sbf.blooms[1]).count = Capacity - 2

\* a call that changes the filter: every add, a remove that found a
\* sub-filter, a check-and-add that returned 0
Mutation ==
  \/ lastop'.op = "add"
  \/ lastop'.op = "remove" /\ ret' = 1
  \/ lastop'.op = "check_add" /\ ret' = 0
\* a call that leaves the filter alone
Lookup ==
  \/ lastop'.op = "check"
  \/ lastop'.op = "remove" /\ ret' = 0
  \/ lastop'.op = "check_add" /\ ret' = 1

\* C33: scaling_bloom_add, a scaling_bloom_remove that returns 1 and a
\* scaling_bloom_check_add that returns 0 leave mem_seqnum one larger than it
\* was, also when a sub-filter is appended or disk_seqnum had to be cleared;
\* scaling_bloom_check, a check-and-add that returns 1 and a remove that
\* returns 0 leave mem_seqnum and disk_seqnum as they were.
C33_SeqnumCountsMutations ==
  [][(Called /\ kind = "scaling") =>
       /\ Mutation => file'.hdr.mem_seqnum = file.hdr.mem_seqnum + 1
       /\ Lookup => /\ file'.hdr.mem_seqnum = file.hdr.mem_seqnum
                    /\ file'.hdr.disk_seqnum = file.hdr.disk_seqnum
                    /\ disk' = disk]_vars

\* an add after a flush appended a sub-filter: the fourth mutation of the
\* filter, and the stored disk_seqnum was cleared
C33_Witness ==
  /\ kind = "scaling" /\ lastop.op = "add" /\ lastop.grew
  /\ snap.hdr.disk_seqnum = 3
  /\ file.hdr.disk_seqnum = 0
  /\ file.hdr.mem_seqnum = 4

\* between calls mem_seqnum is >= 1 and disk_seqnum is 0 or mem_seqnum, and
\* mem_seqnum is 0 exactly while a scaling_bloom_add is under way
SeqnumsInMemory ==
  (kind = "scaling" /\ sbf.open) =>
     /\ threads.pc = "idle" =>
          /\ file.hdr.mem_seqnum >= 1
          /\ file.hdr.disk_seqnum \in {0, file.hdr.mem_seqnum}
     /\ file.hdr.mem_seqnum = 0 <=> threads.pc = "mutating"

\* C34 (as claimed): for a filter made by new_scaling_bloom, between calls
\* mem_seqnum >= 1 and disk_seqnum is 0 or mem_seqnum, mem_seqnum is 0 only
\* during a mutation, and the durable header holds mem_seqnum = 0 only if
\* the header page was written back during a mutation.
C34_SeqnumInvariantClaim ==
  /\ SeqnumsInMemory
  /\ disk.hdr.mem_seqnum = 0 => threads.torn

\* C34 (amended): as claimed in memory; the durable header holds
\* mem_seqnum = 0 only if the header page was written back during a mutation
\* or was never written back since new_scaling_bloom made the file (it is
\* then all zeros), and a durable mem_seqnum that is not 0 becomes 0 only by
\* a write-back during a mutation.
C34_SeqnumInvariant ==
  /\ [](SeqnumsInMemory /\ (disk.hdr.mem_seqnum = 0 => (threads.torn \/ disk.hdr = ZeroHdr)))
  /\ [][(disk.hdr.mem_seqnum # 0 /\ disk'.hdr.mem_seqnum = 0) =>
          (threads.pc = "mutating" /\ lastop'.op = "writeback"
             /\ lastop'.id = PageOf(0))]_vars

\* the header page went to storage with mem_seqnum = 0 during the second add,
\* after it had been stored with max_id = 1, and that add has returned
C34_Witness ==
  /\ kind = "scaling" /\ threads.pc = "idle" /\ threads.torn
  /\ disk.hdr.mem_seqnum = 0 /\ disk.hdr.max_id = 1
  /\ file.hdr.mem_seqnum = 3

\* C35 (as claimed): when process_file_parallel is about to read the results
\* buffer every submitted line has finished its check-and-add and its
\* result append, and what it prints holds every line that was answered new.
C35_PrintAfterWorkClaim ==
  kind = "pool" =>
     /\ threads.phase = "print" =>
          /\ Range(hist.accepted) \subseteq hist.done
          /\ \A w \in Workers : threads.pc[w] \notin {"w_process", "w_store"}
     /\ threads.phase \in {"free", "destroy", "done"} =>
          \A l \in 1..MaxLines :
             (hist.verdict[l] = "new" /\ pool.result_size >= MaxLines)
               => l \in Range(hist.printed)

\* C36 (as claimed): once process_file_parallel has released the shared
\* filter no worker is at, or inside, a check-and-add call on it, and no
\* check-and-add has touched released memory.
C36_FilterOutlivesUsersClaim ==
  (kind = "pool" /\ pool.bloom_filter = "released") =>
     /\ \A w \in Workers : threads.pc[w] # "w_process"
     /\ ~hist.crashed

\* C37 (as claimed): whenever no worker is inside bloom_check_add_64, every
\* line that has been processed was answered 0 (new) exactly once, however
\* many workers processed it, and every position of every processed line is
\* set in the shared filter.
C37_ConcurrentCheckAddClaim ==
  (kind = "race" /\ \A w \in Workers : threads.pc[w] = "idle") =>
     \A x \in RaceItems :
        (hist.news[x] + hist.dups[x] > 0) =>
           /\ hist.news[x] = 1
           /\ Probed(bloom, x) \subseteq Bits64(bloom.bf64)

\* the bit numbers that are 1 in a buffer of bytes
Bits8(buf) ==
  UNION {{a * 8 + b : b \in {c \in 0..7 : (buf[a] \div Pow2(c)) % 2 = 1}} : a \in DOMAIN buf}

\* C38: two filters with the same number of bits and of hash functions that
\* start empty and are given the same items, one through
\* bloom_check_add(add = 1) and one through bloom_check_add_64, return the
\* same value at every call and have the same bit positions set after every
\* call.
C38_SinglePassAgreesWithTwoPass ==
  kind = "pair" =>
     /\ bloom.single.bits = bloom.double.bits
     /\ bloom.single.hashes = bloom.double.hashes
     /\ Bits8(bloom.single.bf) = Bits64(bloom.double.bf64)
     /\ lastop.op = "pair" =>
          /\ lastop.arg = ret
          /\ ret \in {0, 1}
          /\ Probed(bloom.double, lastop.item) \subseteq Bits64(bloom.double.bf64)

\* an item whose two positions coincide was answered new by both, after an
\* item with other positions had been added
C38_Witness ==
  /\ kind = "pair" /\ lastop.op = "pair" /\ lastop.item = ItemE
  /\ Cardinality(Probed(bloom.double, ItemE)) = 1
  /\ ret = 0 /\ lastop.arg = 0
  /\ ItemC \in binserted
  /\ Cardinality(Bits8(bloom.single.bf)) = 3

\* C39: for every pair of hash values and every i, the position of the basic
\* filter lies in 0..bits-1 and its byte and its 64-bit word lie in the
\* buffer; hashes[i] of a sub-filter lies in 0..counts_per_func-1 and the
\* byte of counter hashes[i] + i * counts_per_func lies among the counter
\* bytes of that sub-filter, inside the file; the position of the enhanced
\* counting filter lies in 0..counters-1 and its byte lies in the buffer.
C39_IndicesInRange ==
  kind = "hash" =>
     /\ \A p \in hist.bits :
          /\ p \in 0..(bloom.double.bits - 1)
          /\ p \div 64 \in DOMAIN bloom.double.bf64
          /\ p \div 8 \in DOMAIN bloom.single.bf
     /\ \A c \in hist.counters :
          LET b == sbf.blooms[c[1]]
              index == c[3] + c[2] * b.counts_per_func
          IN /\ c[3] \in 0..(b.counts_per_func - 1)
             /\ index \in 0..(b.size - 1)
             /\ index \div 2 + b.offset \in Region(b)
             /\ index \div 2 + b.offset \in DOMAIN file.array
             /\ index \div 2 + b.offset < sbf.bytes
     /\ \A p \in hist.ecounters :
          /\ p \in 0..(ecb.counters - 1)
          /\ p \div 2 \in DOMAIN ecb.counts

\* every i was computed for an item whose sum h1 + i * h2 leaves the width
\* of the hash for i = 1
C39_Witness ==
  /\ kind = "hash" /\ lastop.op = "probe" /\ left = 0
  /\ lastop.item.h1 + lastop.item.h2 >= HashWrap
  /\ Cardinality(hist.bits) = 2
  /\ \E c \in hist.counters : c[1] = 2 /\ c[2] = 2

\* the low and the high four bits of a byte
Low(n) == n % 16
High(n) == n \div 16
\* the counter bitmap_increment, bitmap_decrement and bitmap_check address
\* with an index: the low half of the byte for an odd index
BitmapCtr(arr, index) ==
  IF index % 2 # 0 THEN Low(arr[index \div 2]) ELSE High(arr[index \div 2])
\* the counter get_counter and set_counter address with a position: the low
\* half of the byte for an even position
CountsCtr(arr, pos) ==
  IF pos % 2 = 0 THEN Low(arr[pos \div 2]) ELSE High(arr[pos \div 2])

\* C40: bitmap_increment, bitmap_decrement, increment_counter and set_counter
\* leave every byte in 0..255 and every counter but the addressed one as it
\* was; the addressed one goes up by one unless it is 15 (bitmap_increment
\* then returns -1), down by one unless it is 0 (bitmap_decrement then
\* returns -1), or to the low four bits of the value; bitmap_check and
\* get_counter of a counter are non-zero exactly when the counter is.
C40_NibblePacking ==
  [][kind = "nibble" =>
       LET j == lastop'.id
           old == hist.array
           new == hist'.array
       IN /\ \A a \in DOMAIN new : new[a] \in ByteValues
          /\ \A q \in NibbleIndices :
               /\ bitmap_check(new, q, 0) # 0 <=> BitmapCtr(new, q) # 0
               /\ get_counter(new, q) # 0 <=> CountsCtr(new, q) # 0
               /\ get_counter(new, q) = CountsCtr(new, q)
          /\ lastop'.op \in {"bitmap_increment", "bitmap_decrement"} =>
               \A q \in NibbleIndices \ {j} : BitmapCtr(new, q) = BitmapCtr(old, q)
          /\ lastop'.op \in {"increment_counter", "set_counter"} =>
               \A q \in NibbleIndices \ {j} : CountsCtr(new, q) = CountsCtr(old, q)
          /\ lastop'.op = "bitmap_increment" =>
               IF BitmapCtr(old, j) = 15
                 THEN ret' = -1 /\ new = old
                 ELSE ret' = 0 /\ BitmapCtr(new, j) = BitmapCtr(old, j) + 1
          /\ lastop'.op = "bitmap_decrement" =>
               IF BitmapCtr(old, j) = 0
                 THEN ret' = -1 /\ new = old
                 ELSE ret' = 0 /\ BitmapCtr(new, j) = BitmapCtr(old, j) - 1
          /\ lastop'.op = "increment_counter" =>
               CountsCtr(new, j) = IF CountsCtr(old, j) = 15 THEN 15
                                   ELSE CountsCtr(old, j) + 1
          /\ lastop'.op = "set_counter" =>
               CountsCtr(new, j) = lastop'.arg % 16]_vars

\* bitmap_increment of a counter at 15 whose neighbour in the byte is 9
C40_Witness ==
  /\ kind = "nibble" /\ lastop.op = "bitmap_increment" /\ lastop.id = 0
  /\ ret = -1
  /\ hist.array[0] = 249

====
